---- MODULE Spec2Model ----
(***************************************************************************)
(* zcaro-online: the game session engine of the server.                    *)
(*                                                                         *)
(* The room state machine (GameManager: createRoom, joinRoom, makeMove,    *)
(* forfeit, resetRoom), the board rules (gameLogic: locked cells, first    *)
(* move cells, checkWinner, isBoardFull) and the socket handlers of        *)
(* server/index.js that drive them (create-room, join-room, start-game,    *)
(* make-move, time-expired, leave-room, disconnect, the grace timer).      *)
(*                                                                         *)
(* The GameManager modelled is the one with the opening-distance rule      *)
(* (firstStarterSymbol / firstStarterPos) and the board rules are the      *)
(* 17x17 ones with the randomized locked cells.                            *)
(***************************************************************************)
EXTENDS Integers, Sequences, FiniteSets, TLC

(***************************************************************************)
(* Bounds of the model (not program constants).                            *)
(***************************************************************************)
\* stones placed per round in Spec and SpecGame: make-move is not offered
\* beyond it
MaxMoves == 5
\* requests of one kind (create-room, join-room) that may be awaiting the
\* user store at the same time
MaxPending == 1
\* join-room requests that may be awaiting the user store at the same time
\* in SpecJoin
MaxJoining == 2

\* elo: null of a user without a rating, kept as a number no rating has
NoElo == -1
\* ratings the user store holds for a socket that asks for a match
EloValues == {NoElo, 1150, 1400, 1600}
\* ratings at the two ends of the window: three within 50 and 100 of each
\* other, and one that is 600 and more away from them
WindowElos == {NoElo, 1150, 1250, 1850}
\* Date.now() when the server starts to listen, and the later times at
\* which something happens, in milliseconds: one millisecond short of 11
\* seconds of waiting, then 11, 31 and 61 seconds
StartTime == 1000
Times == {StartTime, 11999, 12000, 32000, 62000}
\* ratings of SpecQueue: two that are paired at once if they are the same
\* and not at all if they differ
QueueElos == {NoElo, 1850}
\* the times of SpecWindow: the start, just short of 11 seconds later and 61
\* seconds later
WindowTimes == {StartTime, 11999, 62000}
\* the times of SpecGrace: the start and a minute later
GraceTimes == {StartTime, 61000}
\* the identifiers findMatch makes up for its rooms
MatchRoomIds == <<"m1", "m2">>

\* the sockets that connect to the server
Sockets == {"s1", "s2", "s3"}
\* the room identifiers clients ask for
RoomIds == {"r1"}
\* Spec, the rooms' life cycle: who asks for what, and the coordinates
\* make-move requests carry
Owners == {"s1"}
Guests == {"s2", "s3"}
LobbyCells == { <<8, 3>>, <<8, 4>> }
\* SpecGame, the rounds of one room: the coordinates make-move requests
\* carry are cells that are locked under one or another outcome of
\* generateLockedCells, cells next to them, and cells nearer and farther
\* than the opening distance from them
GameCells ==
  { <<8, 3>>, <<8, 4>>, <<7, 4>>, <<8, 6>>, <<8, 9>>, <<7, 8>> }

(***************************************************************************)
(* gameLogic: constants                                                    *)
(***************************************************************************)
BOARD_SIZE == 17
\* length of a winning line (checkWinner: cells.length >= 5, walks i < 5)
WIN_LENGTH == 5
\* generateLockedCells
centerRadius == 5
minDistance == 5
maxGap == 9
\* makeMove, Open-5 rule: manhattan < 5 is rejected
OPEN_MIN_DISTANCE == 5
\* findMatch: the rating of a waiting player whose elo is not a number
DEFAULT_ELO == 1200

Null == "null"
NoPos == <<>>

Cells == (0..(BOARD_SIZE - 1)) \X (0..(BOARD_SIZE - 1))

InBounds(r, c) == r >= 0 /\ r < BOARD_SIZE /\ c >= 0 /\ c < BOARD_SIZE

Abs(x) == IF x < 0 THEN -x ELSE x

manhattan(a, b) == Abs(a[1] - b[1]) + Abs(a[2] - b[2])

SeqToSet(s) == {s[i] : i \in 1..Len(s)}

\* The board array, board[row][col] in {null, "X", "O"}, is kept as the
\* function from its non-null cells to their symbols.
createEmptyBoard == [cell \in {} |-> Null]

\* board[row][col]
at(board, row, col) ==
  IF <<row, col>> \in DOMAIN board THEN board[<<row, col>>] ELSE Null

(***************************************************************************)
(* gameLogic.generateLockedCells                                           *)
(*                                                                         *)
(* The search shuffles the candidates of the central box and picks         *)
(* greedily: the first candidate, then each next one that is not tooClose  *)
(* to those chosen, until three are chosen; the triple is returned when    *)
(* every pairwise distance is within [minDistance, maxGap]. Math.random    *)
(* decides the shuffle: the outcomes are the triples the search accepts,   *)
(* here among the ShuffleSamples, and, when all maxAttempts attempts fail, *)
(* the fallback placement.                                                 *)
(***************************************************************************)
center == BOARD_SIZE \div 2

CellInBounds(cell) == InBounds(cell[1], cell[2])

CandidateBox ==
  LET Max(a, b) == IF a > b THEN a ELSE b
      Min(a, b) == IF a < b THEN a ELSE b
      minRow == Max(0, center - centerRadius)
      maxRow == Min(BOARD_SIZE - 1, center + centerRadius)
      minCol == Max(0, center - centerRadius)
      maxCol == Min(BOARD_SIZE - 1, center + centerRadius)
  IN  (minRow..maxRow) \X (minCol..maxCol)

\* the first three picks of a shuffle, as drawn in the model
ShuffleSamples ==
  { << <<7, 4>>, <<3, 8>>, <<12, 8>> >>,
    << <<3, 3>>, <<13, 13>>, <<8, 8>> >> }

\* chosen by the greedy pass: each pick is not tooClose to the earlier ones
GreedyChosen(t) ==
  /\ Len(t) = 3
  /\ \A i \in 1..3 : t[i] \in CandidateBox
  /\ \A i \in 1..3 : \A j \in 1..(i - 1) : ~(manhattan(t[j], t[i]) < minDistance)

\* the check on the chosen triple before it is returned
BalancedTriangle(t) ==
  LET d01 == manhattan(t[1], t[2])
      d02 == manhattan(t[1], t[3])
      d12 == manhattan(t[2], t[3])
  IN  /\ d01 >= minDistance /\ d02 >= minDistance /\ d12 >= minDistance
      /\ d01 <= maxGap /\ d02 <= maxGap /\ d12 <= maxGap

fallbackLockedCells ==
  SelectSeq(<< <<center + 0, center - 5>>,
               <<center + 5, center + 0>>,
               <<center + 0, center + 5>> >>, CellInBounds)

\* the set of values one call of generateLockedCells() may return
generateLockedCells ==
  {t \in ShuffleSamples : GreedyChosen(t) /\ BalancedTriangle(t)}
    \cup {fallbackLockedCells}

(***************************************************************************)
(* gameLogic.getValidFirstMoveCells, isLockedCell                          *)
(***************************************************************************)
\* isLockedCell with the coordinates of the request exchanged
isLockedCellTransposed(lockedCells, row, col) ==
  \E i \in 1..Len(lockedCells) :
     lockedCells[i][1] = col /\ lockedCells[i][2] = row

isLockedCell(lockedCells, row, col) ==
  \E i \in 1..Len(lockedCells) :
     lockedCells[i][1] = row /\ lockedCells[i][2] = col

neighbourDirections ==
  { <<-1, -1>>, <<-1, 0>>, <<-1, 1>>, <<0, -1>>,
    <<0, 1>>, <<1, -1>>, <<1, 0>>, <<1, 1>> }

\* the array the code builds holds each cell once; membership is all
\* makeMove reads of it
getValidFirstMoveCells(lockedCells) ==
  { <<lockedCells[i][1] + d[1], lockedCells[i][2] + d[2]>> :
      i \in 1..Len(lockedCells), d \in neighbourDirections }
    \cap {cell \in Cells : ~isLockedCell(lockedCells, cell[1], cell[2])}

(***************************************************************************)
(* gameLogic.checkWinner, isBoardFull                                      *)
(***************************************************************************)
directions == << <<0, 1>>, <<1, 0>>, <<1, 1>>, <<1, -1>> >>

\* one of the two loops of checkWinner: the number of steps i, i+1, ... < 5
\* from (row, col) along (dx, dy) that stay on the board on player's stones
RECURSIVE walk(_, _, _, _, _, _, _), walkShort(_, _, _, _, _, _, _)
\* a walk that stops one step early
walkShort(board, row, col, dx, dy, player, i) ==
  IF /\ i < WIN_LENGTH - 1
     /\ InBounds(row + dx * i, col + dy * i)
     /\ at(board, row + dx * i, col + dy * i) = player
  THEN 1 + walkShort(board, row, col, dx, dy, player, i + 1)
  ELSE 0

walk(board, row, col, dx, dy, player, i) ==
  IF /\ i < WIN_LENGTH
     /\ InBounds(row + dx * i, col + dy * i)
     /\ at(board, row + dx * i, col + dy * i) = player
  THEN 1 + walk(board, row, col, dx, dy, player, i + 1)
  ELSE 0

\* cells of one direction: the negative walk (unshift), the cell, the
\* positive walk (push), ordered negative -> positive
lineCells(board, row, col, d, player) ==
  LET pos == walk(board, row, col, d[1], d[2], player, 1)
      neg == walk(board, row, col, -d[1], -d[2], player, 1)
  IN  [k \in 1..(neg + 1 + pos) |->
         <<row + (k - neg - 1) * d[1], col + (k - neg - 1) * d[2]>>]

\* the winning cells, or <<>> for the code's null
checkWinner(board, row, col, player) ==
  LET found == {k \in 1..Len(directions) :
                  Len(lineCells(board, row, col, directions[k], player))
                    >= WIN_LENGTH}
      first == CHOOSE k \in found : \A j \in found : k <= j
  IN  IF found = {} THEN <<>>
      ELSE lineCells(board, row, col, directions[first], player)

isBoardFull(board) == \A cell \in Cells : at(board, cell[1], cell[2]) # Null

(***************************************************************************)
(* State                                                                   *)
(***************************************************************************)
VARIABLES
  rooms,                \* gameManager.rooms: roomId -> game state (a Map)
  pendingRoomTimeouts,  \* index.js: roomId -> its pending grace timer (a
                        \* Map), a timer being the time it was set at
  connected,            \* the sockets whose connection is open
  pendingCreate,        \* create-room handlers awaiting the user store
  pendingJoin,          \* join-room handlers awaiting the user store
  last,                 \* the handler that ran last and what it answered
  waitingPlayers,       \* gameManager.waitingPlayers, in insertion order
  now,                  \* Date.now(), in milliseconds
  pendingMatch,         \* matches found whose room is being set up
  pendingFind,          \* find-match handlers awaiting the user store
  users,                \* the User collection: socketId -> elo, gamesPlayed
  pendingElo            \* updateEloForMatch calls awaiting the user store

vars ==
  <<rooms, pendingRoomTimeouts, connected, pendingCreate, pendingJoin, last,
    waitingPlayers, now, pendingMatch, pendingFind, users, pendingElo>>

\* the state of the matchmaking
matchVars == <<waitingPlayers, now, pendingMatch, pendingFind>>

\* the state of the ratings
storeVars == <<users, pendingElo>>

\* the answers of makeMove
ErrInvalidState == "Invalid game state"
ErrNotInRoom == "Player not in this room"
ErrNotYourTurn == "Not your turn"
ErrLockedCell == "Khong the di vao o cam!"
ErrCellOccupied == "Cell already occupied"
ErrFirstMove == "Luot dau tien phai di vao cac o xung quanh o cam!"
ErrOpen4 == "Open-4: Nuoc di thu 2 can cach nuoc di dau tien it nhat 4 o co."
\* makeMove throws: gameState.board[row] is undefined and [col] is read
ErrThrown == "TypeError"
MoveContinue == "success"
MoveWin == "success isWinner"
MoveDraw == "success isDraw"

MoveErrors ==
  {ErrInvalidState, ErrNotInRoom, ErrNotYourTurn, ErrLockedCell,
   ErrCellOccupied, ErrFirstMove, ErrOpen4}
MoveAccepted == {MoveContinue, MoveWin, MoveDraw}

\* players.player2 === null
\* a slot that never lost its socket has no disconnectedAt
NoTime == 0

NoPlayer ==
  [id |-> Null, socketId |-> Null, symbol |-> Null, disconnectedAt |-> NoTime]

(***************************************************************************)
(* GameManager.createRoom, joinRoom, addSpectator, removeSpectator         *)
(***************************************************************************)
\* the game state createRoom stores; lockedCells is generateLockedCells()
newGameState(player1, lockedCells) ==
  [ board |-> createEmptyBoard,
    player1 |-> [id |-> player1, socketId |-> player1, symbol |-> "X",
                 disconnectedAt |-> NoTime],
    player2 |-> NoPlayer,
    spectators |-> <<>>,
    currentTurn |-> "X",
    status |-> "waiting",
    winner |-> Null,
    lockedCells |-> lockedCells,
    validFirstMoveCells |-> getValidFirstMoveCells(lockedCells),
    moveCount |-> 0,
    firstStarterSymbol |-> Null,
    firstStarterPos |-> NoPos,
    winningCells |-> <<>>,
    lastStarter |-> Null ]

\* this.rooms.set(roomId, gameState)
createRoom(rs, roomId, player1, lockedCells) ==
  [id \in (DOMAIN rs) \cup {roomId} |->
     IF id = roomId THEN newGameState(player1, lockedCells) ELSE rs[id]]

\* a joinRoom that does not look at the status of the room
joinRoomAnyStatus(rs, roomId, player2) ==
  IF roomId \notin DOMAIN rs
  THEN rs
  ELSE [rs EXCEPT ![roomId].player2 =
          [id |-> player2, socketId |-> player2, symbol |-> "O",
           disconnectedAt |-> NoTime]]

\* returns null (the rooms unchanged) for a missing or not waiting room
joinRoom(rs, roomId, player2) ==
  IF roomId \notin DOMAIN rs \/ rs[roomId].status # "waiting"
  THEN rs
  ELSE [rs EXCEPT ![roomId].player2 =
          [id |-> player2, socketId |-> player2, symbol |-> "O",
           disconnectedAt |-> NoTime]]

\* an addSpectator without the search for the spectator among those present
addSpectatorAgain(rs, roomId, spectator) ==
  IF roomId \notin DOMAIN rs THEN rs
  ELSE [rs EXCEPT ![roomId].spectators = Append(@, spectator)]

addSpectator(rs, roomId, spectator) ==
  IF roomId \notin DOMAIN rs THEN rs
  ELSE IF \E i \in 1..Len(rs[roomId].spectators) :
             rs[roomId].spectators[i] = spectator
       THEN rs
       ELSE [rs EXCEPT ![roomId].spectators = Append(@, spectator)]

\* a removeSpectator that removes the room with the spectator
removeSpectatorAndRoom(rs, roomId, socketId) ==
  [id \in (DOMAIN rs) \ {roomId} |-> rs[id]]

removeSpectator(rs, roomId, socketId) ==
  IF roomId \notin DOMAIN rs THEN rs
  ELSE LET keep(s) == s # socketId
       IN  [rs EXCEPT ![roomId].spectators = SelectSeq(@, keep)]

removeRoom(rs, roomId) == [id \in (DOMAIN rs) \ {roomId} |-> rs[id]]

(***************************************************************************)
(* GameManager.makeMove                                                    *)
(***************************************************************************)
\* "Find which player is making the move": player1 is looked at first
findPlayer(gs, socketId) ==
  IF gs.player1.socketId = socketId THEN gs.player1
  ELSE IF gs.player2 # NoPlayer /\ gs.player2.socketId = socketId
       THEN gs.player2
       ELSE NoPlayer

\* "Check first move restriction (must be around locked cells)"
firstMoveRejected(gs, player, row, col) ==
  /\ gs.moveCount = 0 /\ player.symbol = "X"
  /\ <<row, col>> \notin gs.validFirstMoveCells

\* "count existing pieces of this player's symbol on the board"
symbolCount(board, symbol) ==
  Cardinality({cell \in DOMAIN board : board[cell] = symbol})

\* an Open-5 rule that also refuses the distance OPEN_MIN_DISTANCE itself
openRuleRejectedAtMinimum(gs, player, row, col) ==
  /\ symbolCount(gs.board, player.symbol) = 1
  /\ gs.firstStarterSymbol = player.symbol
  /\ gs.firstStarterPos # NoPos
  /\ manhattan(gs.firstStarterPos, <<row, col>>) <= OPEN_MIN_DISTANCE

\* Open-5 rule: the second stone of the symbol that started the round
openRuleRejected(gs, player, row, col) ==
  /\ symbolCount(gs.board, player.symbol) = 1
  /\ gs.firstStarterSymbol = player.symbol
  /\ gs.firstStarterPos # NoPos
  /\ manhattan(gs.firstStarterPos, <<row, col>>) < OPEN_MIN_DISTANCE

\* a state check that lets a finished room through
invalidStateWaitingOnly(rs, roomId) ==
  roomId \notin DOMAIN rs \/ rs[roomId].status = "waiting"

\* "if (!gameState || gameState.status !== "playing")"
invalidState(rs, roomId) ==
  roomId \notin DOMAIN rs \/ rs[roomId].status # "playing"

\* the checks of makeMove in their order: the first error, or Null.
\* board[row][col] of a row outside the board throws (board[row] is
\* undefined); of a column outside the board it is undefined, which is not
\* null: "Cell already occupied"
moveError(rs, roomId, socketId, row, col) ==
  IF invalidState(rs, roomId)
  THEN ErrInvalidState
  ELSE LET gs == rs[roomId]
           player == findPlayer(gs, socketId)
       IN  IF player = NoPlayer THEN ErrNotInRoom
           ELSE IF gs.currentTurn # player.symbol THEN ErrNotYourTurn
           ELSE IF isLockedCell(gs.lockedCells, row, col) THEN ErrLockedCell
           ELSE IF row \notin 0..(BOARD_SIZE - 1) THEN ErrThrown
           ELSE IF col \notin 0..(BOARD_SIZE - 1) THEN ErrCellOccupied
           ELSE IF at(gs.board, row, col) # Null THEN ErrCellOccupied
           ELSE IF firstMoveRejected(gs, player, row, col) THEN ErrFirstMove
           ELSE IF openRuleRejected(gs, player, row, col) THEN ErrOpen4
           ELSE Null

\* a placement that leaves the move count as it was
placeStoneUncounted(gs, player, row, col) ==
  [gs EXCEPT
     !.board = [cell \in (DOMAIN gs.board) \cup {<<row, col>>} |->
                  IF cell = <<row, col>> THEN player.symbol
                  ELSE gs.board[cell]],
     !.firstStarterSymbol = IF gs.moveCount = 0 THEN player.symbol ELSE @,
     !.firstStarterPos = IF gs.moveCount = 0 THEN <<row, col>> ELSE @]

\* "Make the move": the stone, the round's starter, the move count
placeStone(gs, player, row, col) ==
  [gs EXCEPT
     !.board = [cell \in (DOMAIN gs.board) \cup {<<row, col>>} |->
                  IF cell = <<row, col>> THEN player.symbol
                  ELSE gs.board[cell]],
     !.firstStarterSymbol = IF gs.moveCount = 0 THEN player.symbol ELSE @,
     !.firstStarterPos = IF gs.moveCount = 0 THEN <<row, col>> ELSE @,
     !.moveCount = @ + 1]

\* a switch that hands the turn to O whoever moved
switchTurnToO(currentTurn) == IF currentTurn = "X" THEN "O" ELSE "O"

\* "Switch turn"
switchTurn(currentTurn) == IF currentTurn = "X" THEN "O" ELSE "X"

\* "Check for winner", "Check for draw", "Switch turn" on the placed stone
concludeMove(gs, player, row, col) ==
  LET winning == checkWinner(gs.board, row, col, player.symbol)
  IN  IF winning # <<>>
      THEN [result |-> MoveWin,
            gs |-> [gs EXCEPT !.status = "finished",
                              !.winner = player.symbol,
                              !.winningCells = winning]]
      ELSE IF isBoardFull(gs.board)
      THEN [result |-> MoveDraw,
            gs |-> [gs EXCEPT !.status = "finished",
                              !.winner = "draw",
                              !.winningCells = <<>>]]
      ELSE [result |-> MoveContinue,
            gs |-> [gs EXCEPT !.currentTurn = switchTurn(@)]]

\* a makeMove that places the stone before it looks at the Open-5 rule
makeMoveStoneFirst(rs, roomId, socketId, row, col) ==
  LET err == moveError(rs, roomId, socketId, row, col)
  IN  IF err = ErrOpen4
      THEN [result |-> err,
            rooms |-> [rs EXCEPT ![roomId] =
                         placeStone(@, findPlayer(@, socketId), row, col)]]
      ELSE IF err # Null THEN [result |-> err, rooms |-> rs]
      ELSE LET player == findPlayer(rs[roomId], socketId)
               placed == placeStone(rs[roomId], player, row, col)
               done == concludeMove(placed, player, row, col)
           IN  [result |-> done.result,
                rooms |-> [rs EXCEPT ![roomId] = done.gs]]

\* makeMove(roomId, socketId, row, col): its answer and the rooms after it
makeMove(rs, roomId, socketId, row, col) ==
  LET err == moveError(rs, roomId, socketId, row, col)
  IN  IF err # Null THEN [result |-> err, rooms |-> rs]
      ELSE LET player == findPlayer(rs[roomId], socketId)
               placed == placeStone(rs[roomId], player, row, col)
               done == concludeMove(placed, player, row, col)
           IN  [result |-> done.result,
                rooms |-> [rs EXCEPT ![roomId] = done.gs]]

(***************************************************************************)
(* GameManager.forfeit, resetRoom                                          *)
(***************************************************************************)
\* a forfeit that names the loser's own symbol as the winner
forfeitLoserWins(rs, roomId, loserSocketId) ==
  IF roomId \notin DOMAIN rs THEN rs
  ELSE LET p1 == rs[roomId].player1
           p2 == rs[roomId].player2
       IN  IF p2 = NoPlayer
           THEN [rs EXCEPT ![roomId].status = "finished",
                           ![roomId].winner = Null,
                           ![roomId].winningCells = <<>>]
           ELSE [rs EXCEPT ![roomId].status = "finished",
                           ![roomId].winner =
                              IF p1.socketId = loserSocketId
                              THEN p1.symbol ELSE p2.symbol,
                           ![roomId].winningCells = <<>>]

forfeit(rs, roomId, loserSocketId) ==
  IF roomId \notin DOMAIN rs THEN rs
  ELSE LET p1 == rs[roomId].player1
           p2 == rs[roomId].player2
       IN  IF p2 = NoPlayer
           THEN [rs EXCEPT ![roomId].status = "finished",
                           ![roomId].winner = Null,
                           ![roomId].winningCells = <<>>]
           ELSE [rs EXCEPT ![roomId].status = "finished",
                           ![roomId].winner =
                              IF p1.socketId = loserSocketId
                              THEN p2.symbol ELSE p1.symbol,
                           ![roomId].winningCells = <<>>]

\* a resetRoom that leaves the fields of the opening rule as they were
resetRoomKeepsOpening(rs, roomId, lockedCells) ==
  IF roomId \notin DOMAIN rs THEN rs
  ELSE LET nextStarter ==
             IF rs[roomId].lastStarter # Null
             THEN (IF rs[roomId].lastStarter = "X" THEN "O" ELSE "X")
             ELSE "X"
       IN  [rs EXCEPT ![roomId] =
              [@ EXCEPT !.board = createEmptyBoard,
                        !.lockedCells = lockedCells,
                        !.validFirstMoveCells = getValidFirstMoveCells(lockedCells),
                        !.moveCount = 0,
                        !.currentTurn = nextStarter,
                        !.lastStarter = nextStarter,
                        !.status = "playing",
                        !.winner = Null,
                        !.winningCells = <<>>]]

\* a resetRoom after which X opens every round
resetRoomXOpens(rs, roomId, lockedCells) ==
  IF roomId \notin DOMAIN rs THEN rs
  ELSE [rs EXCEPT ![roomId] =
          [@ EXCEPT !.board = createEmptyBoard,
                    !.lockedCells = lockedCells,
                    !.validFirstMoveCells = getValidFirstMoveCells(lockedCells),
                    !.moveCount = 0,
                    !.firstStarterSymbol = Null,
                    !.firstStarterPos = NoPos,
                    !.currentTurn = "X",
                    !.lastStarter = "X",
                    !.status = "playing",
                    !.winner = Null,
                    !.winningCells = <<>>]]

\* lockedCells is generateLockedCells()
resetRoom(rs, roomId, lockedCells) ==
  IF roomId \notin DOMAIN rs THEN rs
  ELSE LET nextStarter ==
             IF rs[roomId].lastStarter # Null
             THEN (IF rs[roomId].lastStarter = "X" THEN "O" ELSE "X")
             ELSE "X"
       IN  [rs EXCEPT ![roomId] =
              [@ EXCEPT !.board = createEmptyBoard,
                        !.lockedCells = lockedCells,
                        !.validFirstMoveCells = getValidFirstMoveCells(lockedCells),
                        !.moveCount = 0,
                        !.firstStarterSymbol = Null,
                        !.firstStarterPos = NoPos,
                        !.currentTurn = nextStarter,
                        !.lastStarter = nextStarter,
                        !.status = "playing",
                        !.winner = Null,
                        !.winningCells = <<>>]]

(***************************************************************************)
(* GameManager: the matchmaking queue                                      *)
(*                                                                         *)
(* waitingPlayers is a Map from socket id to { id, socketId, elo,          *)
(* enqueuedAt }; it is kept as the sequence of its entries in insertion    *)
(* order, the order in which a Map is iterated.                            *)
(***************************************************************************)
queuedIds(wp) == {wp[i].id : i \in 1..Len(wp)}

\* Map.set: an entry of the same key is replaced where it stands
addWaitingPlayer(wp, socketId, elo, t) ==
  LET entry == [id |-> socketId, elo |-> elo, enqueuedAt |-> t]
  IN  IF socketId \in queuedIds(wp)
      THEN [i \in 1..Len(wp) |-> IF wp[i].id = socketId THEN entry ELSE wp[i]]
      ELSE Append(wp, entry)

removeWaitingPlayer(wp, socketId) ==
  LET keep(e) == e.id # socketId
  IN  SelectSeq(wp, keep)

\* getDeltaForWait with a first window of 25
getDeltaForWaitNarrow(waitSeconds) ==
  IF waitSeconds <= 10 THEN 25
  ELSE IF waitSeconds <= 20 THEN 100
  ELSE IF waitSeconds <= 30 THEN 200
  ELSE IF waitSeconds <= 45 THEN 300
  ELSE IF waitSeconds <= 60 THEN 400
  ELSE 600

getDeltaForWait(waitSeconds) ==
  IF waitSeconds <= 10 THEN 50
  ELSE IF waitSeconds <= 20 THEN 100
  ELSE IF waitSeconds <= 30 THEN 200
  ELSE IF waitSeconds <= 45 THEN 300
  ELSE IF waitSeconds <= 60 THEN 400
  ELSE 600

\* Math.floor((now - (entry.enqueuedAt || now)) / 1000)
waitSec(entry, t) ==
  (t - (IF entry.enqueuedAt = 0 THEN t ELSE entry.enqueuedAt)) \div 1000

\* typeof entry.elo === "number" ? entry.elo : 1200
eloOf(entry) == IF entry.elo = NoElo THEN DEFAULT_ELO ELSE entry.elo

\* allowed with the requester's window alone
allowedRequesterOnly(requester, other, t) ==
  getDeltaForWait(waitSec(requester, t))

\* allowed = Math.max(allowedRequester, allowedOther)
allowed(requester, other, t) ==
  LET allowedRequester == getDeltaForWait(waitSec(requester, t))
      allowedOther == getDeltaForWait(waitSec(other, t))
  IN  IF allowedRequester >= allowedOther
      THEN allowedRequester ELSE allowedOther

\* the loop of findMatch with diff <= bestDiff: of equal candidates the
\* latest is kept
RECURSIVE bestFromLatest(_, _, _, _, _, _)
bestFromLatest(wp, i, requester, t, best, bestDiff) ==
  IF i > Len(wp) THEN best
  ELSE IF wp[i].id = requester.id
  THEN bestFromLatest(wp, i + 1, requester, t, best, bestDiff)
  ELSE LET diff == Abs(eloOf(requester) - eloOf(wp[i]))
       IN  IF /\ diff <= allowed(requester, wp[i], t)
              /\ (best = 0 \/ diff <= bestDiff)
           THEN bestFromLatest(wp, i + 1, requester, t, i, diff)
           ELSE bestFromLatest(wp, i + 1, requester, t, best, bestDiff)

\* the loop of findMatch from entry i on: the index of best, 0 for null
RECURSIVE bestFrom(_, _, _, _, _, _)
bestFrom(wp, i, requester, t, best, bestDiff) ==
  IF i > Len(wp) THEN best
  ELSE IF wp[i].id = requester.id
  THEN bestFrom(wp, i + 1, requester, t, best, bestDiff)
  ELSE LET diff == Abs(eloOf(requester) - eloOf(wp[i]))
       IN  IF /\ diff <= allowed(requester, wp[i], t)
              /\ (best = 0 \/ diff < bestDiff)
           THEN bestFrom(wp, i + 1, requester, t, i, diff)
           ELSE bestFrom(wp, i + 1, requester, t, best, bestDiff)

\* findMatch without removeWaitingPlayer(socketId): the requester stays
findMatchKeepsRequester(wp, socketId, t) ==
  IF socketId \notin queuedIds(wp)
  THEN [opponent |-> Null, waitingPlayers |-> wp]
  ELSE LET requester == wp[CHOOSE i \in 1..Len(wp) : wp[i].id = socketId]
           best == bestFrom(wp, 1, requester, t, 0, 0)
       IN  IF best = 0
           THEN [opponent |-> Null, waitingPlayers |-> wp]
           ELSE [opponent |-> wp[best].id,
                 waitingPlayers |-> removeWaitingPlayer(wp, wp[best].id)]

\* findMatch(socketId) at the time t: the opponent (Null for the code's
\* null) and the queue after it
findMatch(wp, socketId, t) ==
  IF socketId \notin queuedIds(wp)
  THEN [opponent |-> Null, waitingPlayers |-> wp]
  ELSE LET requester == wp[CHOOSE i \in 1..Len(wp) : wp[i].id = socketId]
           best == bestFrom(wp, 1, requester, t, 0, 0)
       IN  IF best = 0
           THEN [opponent |-> Null, waitingPlayers |-> wp]
           ELSE [opponent |-> wp[best].id,
                 waitingPlayers |->
                    removeWaitingPlayer(
                       removeWaitingPlayer(wp, wp[best].id), socketId)]

(***************************************************************************)
(* server/index.js: the socket handlers                                    *)
(*                                                                         *)
(* A handler runs to its first await without interleaving; create-room     *)
(* and join-room await the user store between their check of the room and  *)
(* their call of the GameManager, so each is two steps.                    *)
(***************************************************************************)
\* what the handler that ran last was and what it emitted: the event or
\* error, its room, and the cell of a move-made
\* no call of updateEloForMatch by the handler
NoEloCall == {}

\* what a handler answered; elo is the call of updateEloForMatch it made
Answer(op, roomId, cell, result) ==
  [op |-> op, room |-> roomId, cell |-> cell, result |-> result,
   elo |-> NoEloCall]

\* updateEloForMatch(io, roomId, p1.socketId, p2.socketId, winner, isDraw)
eloCall(gs, winnerSocketId, isDraw) ==
  {[socketA |-> gs.player1.socketId, socketB |-> gs.player2.socketId,
    winnerSocketId |-> winnerSocketId, isDraw |-> isDraw]}

\* make-move: if (result.isWinner || result.isDraw) and both players are
\* there, the ratings are updated; gs is result.gameState
moveEloCall(gs, result) ==
  IF result \notin {MoveWin, MoveDraw} \/ gs.player2 = NoPlayer
  THEN NoEloCall
  ELSE IF result = MoveDraw THEN eloCall(gs, Null, TRUE)
  ELSE eloCall(gs, IF gs.winner = "X" THEN gs.player1.socketId
                   ELSE gs.player2.socketId, FALSE)

\* time-expired: if (p1 && p2) the ratings are updated; gs is the game
\* state forfeit returned
timeoutEloCall(gs) ==
  IF gs.player2 = NoPlayer
  THEN NoEloCall
  ELSE eloCall(gs, IF gs.winner = gs.player1.symbol
                   THEN gs.player1.socketId
                   ELSE gs.player2.socketId, FALSE)

NoRooms == [id \in {} |-> Null]

\* pendingRoomTimeouts = new Map()
NoTimers == [id \in {} |-> 0]

\* clearPendingRoomTimer(roomId)
clearPendingRoomTimer(timers, roomId) ==
  [id \in (DOMAIN timers) \ {roomId} |-> timers[id]]

\* a User document as the schema creates it: elo 1200, gamesPlayed 0
NewUsers == [s \in Sockets |-> [elo |-> DEFAULT_ELO, gamesPlayed |-> 0]]

Init ==
  /\ rooms = NoRooms
  /\ pendingRoomTimeouts = NoTimers
  /\ connected = Sockets
  /\ pendingCreate = {}
  /\ pendingJoin = {}
  /\ last = Answer("listen", Null, NoPos, Null)
  /\ waitingPlayers = <<>>
  /\ now = StartTime
  /\ pendingMatch = {}
  /\ pendingFind = {}
  /\ users = NewUsers
  /\ pendingElo = {}

\* create-room up to the await that follows the room-exists check
CreateRoomCheck(s, r) ==
  /\ s \in connected
  /\ IF r \in DOMAIN rooms
     THEN /\ last' = Answer("create-room", r, NoPos, "room-exists")
          /\ UNCHANGED pendingCreate
     ELSE /\ pendingCreate' = pendingCreate \cup {[socket |-> s, room |-> r]}
          /\ last' = Answer("create-room", r, NoPos, "await")
  /\ UNCHANGED <<rooms, pendingRoomTimeouts, connected, pendingJoin>>
  /\ UNCHANGED <<matchVars, storeVars>>

\* create-room after the await: gameManager.createRoom
CreateRoomCommit(p) ==
  /\ p \in pendingCreate
  /\ \E lockedCells \in generateLockedCells :
        rooms' = createRoom(rooms, p.room, p.socket, lockedCells)
  /\ pendingCreate' = pendingCreate \ {p}
  /\ last' = Answer("create-room", p.room, NoPos, "room-created")
  /\ UNCHANGED <<pendingRoomTimeouts, connected, pendingJoin>>
  /\ UNCHANGED <<matchVars, storeVars>>

\* join-room up to the await: the branch is chosen on the room as it is now
JoinRoomCheck(s, r) ==
  /\ s \in connected
  /\ IF r \notin DOMAIN rooms
     THEN /\ last' = Answer("join-room", r, NoPos, "room-not-found")
          /\ UNCHANGED pendingJoin
     ELSE /\ pendingJoin' = pendingJoin \cup
               {[socket |-> s, room |-> r,
                 as |-> IF rooms[r].player2 = NoPlayer
                        THEN "player" ELSE "spectator"]}
          /\ last' = Answer("join-room", r, NoPos, "await")
  /\ UNCHANGED <<rooms, pendingRoomTimeouts, connected, pendingCreate>>
  /\ UNCHANGED <<matchVars, storeVars>>

\* join-room after the await: joinRoom or addSpectator, and the pending
\* grace timer of the room is cleared
JoinRoomCommit(p) ==
  /\ p \in pendingJoin
  /\ rooms' = IF p.as = "player"
              THEN joinRoom(rooms, p.room, p.socket)
              ELSE addSpectator(rooms, p.room, p.socket)
  /\ pendingRoomTimeouts' = clearPendingRoomTimer(pendingRoomTimeouts, p.room)
  /\ pendingJoin' = pendingJoin \ {p}
  /\ last' = Answer("join-room", p.room, NoPos, "room-joined")
  /\ UNCHANGED <<connected, pendingCreate>>
  /\ UNCHANGED <<matchVars, storeVars>>

\* a start-game handler without the test for an opponent
startGameAlone(rs, roomId, socketId, lockedCells) ==
  IF \/ roomId \notin DOMAIN rs
     \/ rs[roomId].player1.socketId # socketId
  THEN [result |-> "start-error", rooms |-> rs]
  ELSE [result |-> "game-started",
        rooms |-> resetRoom(rs, roomId, lockedCells)]

\* the start-game handler on the rooms: its answer and the rooms after it;
\* lockedCells is what generateLockedCells() returns inside resetRoom
startGame(rs, roomId, socketId, lockedCells) ==
  IF \/ roomId \notin DOMAIN rs
     \/ rs[roomId].player1.socketId # socketId
     \/ rs[roomId].player2 = NoPlayer
  THEN [result |-> "start-error", rooms |-> rs]
  ELSE [result |-> "game-started",
        rooms |-> resetRoom(rs, roomId, lockedCells)]

\* start-game: only player1 of a room with an opponent; resetRoom
StartGame(s, r) ==
  /\ s \in connected
  /\ \E lockedCells \in generateLockedCells :
        LET started == startGame(rooms, r, s, lockedCells)
        IN  /\ rooms' = started.rooms
            /\ last' = Answer("start-game", r, NoPos, started.result)
  /\ UNCHANGED <<pendingRoomTimeouts, connected, pendingCreate, pendingJoin>>
  /\ UNCHANGED <<matchVars, storeVars>>

\* make-move: gameManager.makeMove and its answer
MakeMove(s, r, row, col) ==
  /\ s \in connected
  /\ LET m == makeMove(rooms, r, s, row, col)
     IN  /\ rooms' = m.rooms
         /\ last' = [Answer("make-move", r,
                             IF m.result \in MoveAccepted
                             THEN <<row, col>> ELSE NoPos,
                             m.result)
                        EXCEPT !.elo = IF r \in DOMAIN m.rooms
                                       THEN moveEloCall(m.rooms[r], m.result)
                                       ELSE NoEloCall]
  /\ UNCHANGED <<pendingRoomTimeouts, connected, pendingCreate, pendingJoin>>
  /\ UNCHANGED <<matchVars, storeVars>>

\* time-expired: forfeit by the reporting socket, for any room that exists
TimeExpired(s, r) ==
  /\ s \in connected
  /\ r \in DOMAIN rooms
  /\ rooms' = forfeit(rooms, r, s)
  /\ last' = [Answer("time-expired", r, NoPos, "game-ended")
                 EXCEPT !.elo = timeoutEloCall(forfeit(rooms, r, s)[r])]
  /\ UNCHANGED <<pendingRoomTimeouts, connected, pendingCreate, pendingJoin>>
  /\ UNCHANGED <<matchVars, storeVars>>

\* leave-room: a player leaving removes the room, anyone else leaves the
\* spectators
LeaveRoom(s, r) ==
  /\ s \in connected
  /\ r \in DOMAIN rooms
  /\ IF rooms[r].player1.socketId = s \/ rooms[r].player2.socketId = s
     THEN /\ rooms' = removeRoom(rooms, r)
          /\ pendingRoomTimeouts' =
                clearPendingRoomTimer(pendingRoomTimeouts, r)
          /\ last' = Answer("leave-room", r, NoPos, "opponent-left")
     ELSE /\ rooms' = removeSpectator(rooms, r, s)
          /\ UNCHANGED pendingRoomTimeouts
          /\ last' = Answer("leave-room", r, NoPos, "spectator-left")
  /\ UNCHANGED <<connected, pendingCreate, pendingJoin>>
  /\ UNCHANGED <<matchVars, storeVars>>

\* disconnect, for one room: the player's slot loses its socketId and gets
\* disconnectedAt = Date.now()
disconnectFrom(gs, s, t) ==
  IF gs.player1.socketId = s \/ gs.player2.socketId = s
  THEN [gs EXCEPT
          !.player1.socketId = IF gs.player1.socketId = s THEN Null ELSE @,
          !.player1.disconnectedAt = IF gs.player1.socketId = s THEN t ELSE @,
          !.player2.socketId = IF gs.player2.socketId = s THEN Null ELSE @,
          !.player2.disconnectedAt = IF gs.player2.socketId = s THEN t ELSE @]
  ELSE LET keep(x) == x # s
       IN  [gs EXCEPT !.spectators = SelectSeq(@, keep)]

\* disconnect with a timer set for every room of the player, one pending or
\* not
setRoomTimersAnew(timers, rs, s, t) ==
  LET held == {r \in DOMAIN rs :
                 rs[r].player1.socketId = s \/ rs[r].player2.socketId = s}
  IN  [r \in (DOMAIN timers) \cup held |-> IF r \in held THEN t ELSE timers[r]]

\* disconnect, the timers: if (!pendingRoomTimeouts.has(roomId)) a timer is
\* set for the room of a player, at the time t
setRoomTimers(timers, rs, s, t) ==
  LET held == {r \in DOMAIN rs :
                 rs[r].player1.socketId = s \/ rs[r].player2.socketId = s}
  IN  [r \in (DOMAIN timers) \cup held |->
         IF r \in DOMAIN timers THEN timers[r] ELSE t]

\* disconnect: every room is visited; a player's room gets a grace timer
\* unless one is pending
Disconnect(s) ==
  /\ s \in connected
  /\ connected' = connected \ {s}
  /\ rooms' = [r \in DOMAIN rooms |-> disconnectFrom(rooms[r], s, now)]
  /\ pendingRoomTimeouts' = setRoomTimers(pendingRoomTimeouts, rooms, s, now)
  /\ last' = Answer("disconnect", Null, NoPos, Null)
  /\ UNCHANGED <<pendingCreate, pendingJoin>>
  /\ waitingPlayers' = removeWaitingPlayer(waitingPlayers, s)
  /\ UNCHANGED <<now, pendingMatch, pendingFind, storeVars>>

\* io.on("connection"): a socket that had disconnected is connected again
Connect(s) ==
  /\ s \notin connected
  /\ connected' = connected \cup {s}
  /\ last' = Answer("connection", Null, NoPos, "rooms-list")
  /\ UNCHANGED <<rooms, pendingRoomTimeouts, pendingCreate, pendingJoin>>
  /\ UNCHANGED <<matchVars, storeVars>>

\* the grace timer of a room fires
GraceTimeout(r) ==
  /\ r \in DOMAIN pendingRoomTimeouts
  /\ pendingRoomTimeouts' = clearPendingRoomTimer(pendingRoomTimeouts, r)
  /\ IF /\ r \in DOMAIN rooms
        /\ \/ rooms[r].player1.socketId = Null
           \/ rooms[r].player2 = NoPlayer
           \/ rooms[r].player2.socketId = Null
     THEN /\ rooms' = removeRoom(rooms, r)
          /\ last' = Answer("grace-timer", r, NoPos, "room-removed")
     ELSE /\ UNCHANGED rooms
          /\ last' = Answer("grace-timer", r, NoPos, Null)
  /\ UNCHANGED <<connected, pendingCreate, pendingJoin>>
  /\ UNCHANGED <<matchVars, storeVars>>

(***************************************************************************)
(* server/index.js: find-match, cancel-matchmaking                         *)
(***************************************************************************)
\* the identifiers of MatchRoomIds that no room and no match in the making
\* has
freeMatchRooms ==
  {i \in 1..Len(MatchRoomIds) :
     /\ MatchRoomIds[i] \notin DOMAIN rooms
     /\ \A p \in pendingMatch : p.room # MatchRoomIds[i]}

\* s is of a match in the making or holds a slot of a room
inMatch(s) ==
  \/ \E p \in pendingMatch : s \in {p.requester, p.opponent}
  \/ \E r \in DOMAIN rooms :
        s \in {rooms[r].player1.socketId, rooms[r].player2.socketId}

\* findMatch(socketId) as the handlers call it: the queue loses the pair,
\* and the pair waits for its room; periodic tells the caller
matched(queued, s, periodic, op) ==
  LET match == findMatch(queued, s, now)
      roomId == MatchRoomIds[CHOOSE i \in freeMatchRooms :
                                \A j \in freeMatchRooms : i <= j]
  IN  /\ waitingPlayers' = match.waitingPlayers
      /\ IF match.opponent = Null
         THEN /\ UNCHANGED pendingMatch
              /\ last' = Answer(op, Null, NoPos,
                                IF periodic THEN "continue"
                                ELSE "waiting-for-match")
         ELSE /\ pendingMatch' = pendingMatch \cup
                    {[room |-> roomId, requester |-> s,
                      opponent |-> match.opponent, periodic |-> periodic,
                      stage |-> "create"]}
              /\ last' = Answer(op, roomId, NoPos, "await")

\* find-match whose awaits on the user store return before another event
\* arrives: from the request to the await that follows findMatch
FindMatch(s, elo) ==
  /\ s \in connected
  /\ freeMatchRooms # {}
  /\ matched(addWaitingPlayer(waitingPlayers, s, elo, now), s, FALSE,
             "find-match")
  /\ UNCHANGED <<storeVars, rooms, pendingRoomTimeouts, connected, pendingCreate,
                 pendingJoin, now, pendingFind>>

\* find-match to its first await: the user store is asked for the user of
\* the socket
FindMatchRequest(s) ==
  /\ s \in connected
  /\ s \notin pendingFind
  /\ pendingFind' = pendingFind \cup {s}
  /\ last' = Answer("find-match", Null, NoPos, "await")
  /\ UNCHANGED <<storeVars, rooms, pendingRoomTimeouts, connected, pendingCreate,
                 pendingJoin, waitingPlayers, now, pendingMatch>>

\* find-match after its first await, the user store has no signed-in user
\* for the socket: auth-required
FindMatchRefused(s) ==
  /\ s \in pendingFind
  /\ pendingFind' = pendingFind \ {s}
  /\ last' = Answer("find-match", Null, NoPos, "auth-required")
  /\ UNCHANGED <<storeVars, rooms, pendingRoomTimeouts, connected, pendingCreate,
                 pendingJoin, waitingPlayers, now, pendingMatch>>

\* find-match after its awaits on the user store, whatever has happened to
\* the socket meanwhile: addWaitingPlayer, findMatch, to the next await
FindMatchEnqueue(s, elo) ==
  /\ s \in pendingFind
  /\ freeMatchRooms # {}
  /\ pendingFind' = pendingFind \ {s}
  /\ matched(addWaitingPlayer(waitingPlayers, s, elo, now), s, FALSE,
             "find-match")
  /\ UNCHANGED <<storeVars, rooms, pendingRoomTimeouts, connected, pendingCreate,
                 pendingJoin, now>>

\* the periodic matcher, one socket of the queue: findMatch to the await
\* that follows it
PeriodicMatch(s) ==
  /\ s \in queuedIds(waitingPlayers)
  /\ freeMatchRooms # {}
  /\ matched(waitingPlayers, s, TRUE, "periodic-matcher")
  /\ UNCHANGED <<storeVars, rooms, pendingRoomTimeouts, connected, pendingCreate,
                 pendingJoin, now, pendingFind>>

\* after the first await: createRoom for the requester; find-match joins
\* the opponent only if its socket is still connected, the periodic matcher
\* always
MatchCreateRoom(p) ==
  /\ p \in pendingMatch
  /\ p.stage = "create"
  /\ \E lockedCells \in generateLockedCells :
        rooms' = createRoom(rooms, p.room, p.requester, lockedCells)
  /\ pendingMatch' = (pendingMatch \ {p}) \cup
        (IF p.periodic \/ p.opponent \in connected
         THEN {[p EXCEPT !.stage = "join"]} ELSE {})
  /\ last' = Answer(IF p.periodic THEN "periodic-matcher" ELSE "find-match",
                    p.room, NoPos, "await")
  /\ UNCHANGED <<storeVars, pendingRoomTimeouts, connected, pendingCreate, pendingJoin,
                 waitingPlayers, now, pendingFind>>

\* after the second await: joinRoom for the opponent
MatchJoinRoom(p) ==
  /\ p \in pendingMatch
  /\ p.stage = "join"
  /\ rooms' = joinRoom(rooms, p.room, p.opponent)
  /\ pendingMatch' = pendingMatch \ {p}
  /\ last' = Answer(IF p.periodic THEN "periodic-matcher" ELSE "find-match",
                    p.room, NoPos, "room-joined")
  /\ UNCHANGED <<storeVars, pendingRoomTimeouts, connected, pendingCreate, pendingJoin,
                 waitingPlayers, now, pendingFind>>

CancelMatchmaking(s) ==
  /\ s \in connected
  /\ waitingPlayers' = removeWaitingPlayer(waitingPlayers, s)
  /\ last' = Answer("cancel-matchmaking", Null, NoPos,
                    "matchmaking-cancelled")
  /\ UNCHANGED <<storeVars, rooms, pendingRoomTimeouts, connected, pendingCreate,
                 pendingJoin, now, pendingMatch, pendingFind>>

\* time passes
Tick(t) ==
  /\ t > now
  /\ now' = t
  /\ UNCHANGED <<storeVars, rooms, pendingRoomTimeouts, connected, pendingCreate,
                 pendingJoin, last, waitingPlayers, pendingMatch,
                 pendingFind>>

\* create-room is offered while fewer than n create-room handlers are at
\* their await
CreateOffered(n) == Cardinality(pendingCreate) < n

\* join-room is offered while fewer than n join-room handlers are at their
\* await
JoinOffered(n) == Cardinality(pendingJoin) < n

\* Spec offers make-move while the round has fewer than MaxMoves stones
MoveOffered(r) == r \in DOMAIN rooms => rooms[r].moveCount < MaxMoves

Next ==
  \/ \E s \in Owners, r \in RoomIds :
        CreateOffered(MaxPending) /\ CreateRoomCheck(s, r)
  \/ \E p \in pendingCreate : CreateRoomCommit(p)
  \/ \E s \in Guests, r \in RoomIds :
        JoinOffered(MaxPending) /\ JoinRoomCheck(s, r)
  \/ \E p \in pendingJoin : JoinRoomCommit(p)
  \/ \E s \in Sockets, r \in RoomIds : StartGame(s, r)
  \/ \E s \in Sockets, r \in RoomIds, cell \in LobbyCells :
        MoveOffered(r) /\ MakeMove(s, r, cell[1], cell[2])
  \/ \E s \in Sockets, r \in RoomIds : TimeExpired(s, r)
  \/ \E s \in Sockets, r \in RoomIds : LeaveRoom(s, r)
  \/ \E s \in Sockets : Disconnect(s)
  \/ \E r \in RoomIds : GraceTimeout(r)

\* the life cycle of the rooms, every handler
Spec == Init /\ [][Next]_vars

NextGame ==
  \/ \E r \in RoomIds : CreateOffered(MaxPending) /\ CreateRoomCheck("s1", r)
  \/ \E p \in pendingCreate : CreateRoomCommit(p)
  \/ \E r \in RoomIds : JoinOffered(MaxPending) /\ JoinRoomCheck("s2", r)
  \/ \E p \in pendingJoin : JoinRoomCommit(p)
  \/ \E s \in Sockets, r \in RoomIds : StartGame(s, r)
  \/ \E s \in Sockets, r \in RoomIds, cell \in GameCells :
        MoveOffered(r) /\ MakeMove(s, r, cell[1], cell[2])
  \/ \E s \in Sockets, r \in RoomIds : TimeExpired(s, r)

\* the rounds of a room of two players: the behaviours of Spec in which
\* s1 creates, s2 joins, nobody leaves, and moves go to the GameCells
SpecGame == Init /\ [][NextGame]_vars

(***************************************************************************)
(* SpecMid: rounds in play, far into the game                              *)
(*                                                                         *)
(* A five in a row takes at least nine stones and a full board 286, more   *)
(* than a search from the empty board reaches. SpecMid starts from         *)
(* positions of a round in play and applies make-move to them. A position  *)
(* is admitted only if play reaches it (PlayablePosition): the stones are  *)
(* off the locked cells, the opener has as many stones as the other symbol *)
(* or one more, the opener's first stone is next to a locked cell, another *)
(* of its stones is at the opening distance (it was placed second), and no *)
(* five stones are in a row (no subset of the stones ended the round).     *)
(***************************************************************************)
\* five cells in a row through cell, all on the board and holding symbol;
\* cell is the k-th of them along d
fiveThrough(board, cell, symbol) ==
  \E n \in 1..Len(directions), k \in 0..(WIN_LENGTH - 1) :
    \A i \in 0..(WIN_LENGTH - 1) :
       LET r == cell[1] + (i - k) * directions[n][1]
           c == cell[2] + (i - k) * directions[n][2]
       IN  InBounds(r, c) /\ at(board, r, c) = symbol

other(symbol) == IF symbol = "X" THEN "O" ELSE "X"

positionBoard(xs, os) ==
  [cell \in xs \cup os |-> IF cell \in xs THEN "X" ELSE "O"]

PlayablePosition(p) ==
  LET mine == IF p.opener = "X" THEN p.xs ELSE p.os
      theirs == IF p.opener = "X" THEN p.os ELSE p.xs
      board == positionBoard(p.xs, p.os)
  IN  /\ p.lockedCells \in generateLockedCells
      /\ p.xs \cap p.os = {}
      /\ (p.xs \cup p.os) \subseteq Cells
      /\ \A cell \in p.xs \cup p.os :
            ~isLockedCell(p.lockedCells, cell[1], cell[2])
      /\ Cardinality(mine) - Cardinality(theirs) \in {0, 1}
      /\ p.first \in mine
      /\ p.first \in getValidFirstMoveCells(p.lockedCells)
      /\ Cardinality(mine) > 1 =>
            \E cell \in mine \ {p.first} :
               manhattan(p.first, cell) >= OPEN_MIN_DISTANCE
      /\ \A cell \in p.xs \cup p.os : ~fiveThrough(board, cell, board[cell])

\* the room of s1 and s2 in the round the position is of: X opens the
\* first round of a room, O the second
positionState(p) ==
  LET mine == IF p.opener = "X" THEN p.xs ELSE p.os
      theirs == IF p.opener = "X" THEN p.os ELSE p.xs
  IN  [ board |-> positionBoard(p.xs, p.os),
        player1 |-> [id |-> "s1", socketId |-> "s1", symbol |-> "X",
                     disconnectedAt |-> NoTime],
        player2 |-> [id |-> "s2", socketId |-> "s2", symbol |-> "O",
                     disconnectedAt |-> NoTime],
        spectators |-> <<>>,
        currentTurn |-> IF Cardinality(mine) = Cardinality(theirs)
                        THEN p.opener ELSE other(p.opener),
        status |-> "playing",
        winner |-> Null,
        lockedCells |-> p.lockedCells,
        validFirstMoveCells |-> getValidFirstMoveCells(p.lockedCells),
        moveCount |-> Cardinality(p.xs) + Cardinality(p.os),
        firstStarterSymbol |-> p.opener,
        firstStarterPos |-> p.first,
        winningCells |-> <<>>,
        lastStarter |-> p.opener ]

sampleLockedCells == << <<7, 4>>, <<3, 8>>, <<12, 8>> >>

scatter5 == { <<10, 4>>, <<10, 6>>, <<10, 8>>, <<11, 5>>, <<11, 7>> }
scatter9 == scatter5 \cup { <<15, 1>>, <<15, 3>>, <<16, 2>>, <<16, 5>> }

\* a board without three in a row: pairs of X and pairs of O along every
\* row, shifted by two from row to row, and one X turned into O so that
\* both symbols have 143 of the 286 cells that are not locked
tilingSymbol(cell) ==
  IF cell = <<0, 0>> THEN "O"
  ELSE IF (cell[2] + 2 * cell[1]) % 4 < 2 THEN "X" ELSE "O"

tilingHoles == { <<4, 4>>, <<14, 6>>, <<2, 14>> }

tilingCells(symbol) ==
  {cell \in Cells :
     /\ tilingSymbol(cell) = symbol
     /\ cell \notin tilingHoles
     /\ ~isLockedCell(fallbackLockedCells, cell[1], cell[2])}

MidPositions ==
  { \* X one stone short of six in a row, along a row
    [lockedCells |-> fallbackLockedCells, opener |-> "X", first |-> <<8, 4>>,
     xs |-> { <<8, 4>>, <<8, 5>>, <<8, 6>>, <<8, 7>>, <<8, 9>> },
     os |-> scatter5],
    \* O, who did not open, one stone short of five in a column
    [lockedCells |-> fallbackLockedCells, opener |-> "X", first |-> <<8, 4>>,
     xs |-> { <<8, 4>>, <<8, 9>>, <<2, 2>>, <<2, 5>>, <<4, 3>> },
     os |-> { <<10, 6>>, <<11, 6>>, <<12, 6>>, <<13, 6>> }],
    \* X one stone short of five on the diagonal from the corner
    [lockedCells |-> fallbackLockedCells, opener |-> "X", first |-> <<8, 4>>,
     xs |-> { <<8, 4>>, <<0, 0>>, <<1, 1>>, <<2, 2>>, <<3, 3>> },
     os |-> scatter5],
    \* O opened (second round), one stone short of five on the other diagonal
    [lockedCells |-> sampleLockedCells, opener |-> "O", first |-> <<8, 4>>,
     os |-> { <<8, 4>>, <<2, 13>>, <<3, 12>>, <<4, 11>>, <<5, 10>> },
     xs |-> scatter5],
    \* X with two fours on a row, one cell between them
    [lockedCells |-> fallbackLockedCells, opener |-> "X", first |-> <<8, 4>>,
     xs |-> { <<8, 4>>, <<5, 0>>, <<5, 1>>, <<5, 2>>, <<5, 3>>,
              <<5, 5>>, <<5, 6>>, <<5, 7>>, <<5, 8>> },
     os |-> scatter9],
    \* three cells short of a board with every cell taken that is not locked
    [lockedCells |-> fallbackLockedCells, opener |-> "X", first |-> <<7, 2>>,
     xs |-> tilingCells("X"),
     os |-> tilingCells("O")] }

\* the coordinates make-move requests carry in SpecMid
MidCells ==
  { <<8, 8>>, <<8, 3>>, <<9, 6>>, <<14, 6>>, <<4, 4>>, <<6, 9>>, <<5, 4>>,
    <<2, 14>> }

InitMid ==
  /\ \E p \in {q \in MidPositions : PlayablePosition(q)} :
        rooms = [id \in {"r1"} |-> positionState(p)]
  /\ pendingRoomTimeouts = NoTimers
  /\ connected = Sockets
  /\ pendingCreate = {}
  /\ pendingJoin = {}
  /\ last = Answer("make-move", "r1", NoPos, ErrNotInRoom)
  /\ waitingPlayers = <<>>
  /\ now = StartTime
  /\ pendingMatch = {}
  /\ pendingFind = {}
  /\ users = NewUsers
  /\ pendingElo = {}

NextMid ==
  \E s \in Sockets, r \in RoomIds, cell \in MidCells :
     MakeMove(s, r, cell[1], cell[2])

SpecMid == InitMid /\ [][NextMid]_vars
(***************************************************************************)
(* SpecRounds: round after round                                           *)
(*                                                                         *)
(* The rounds of a room of s1 and s2 from the first one on, and the rounds *)
(* that follow a round far into the game: a new round is started after a   *)
(* win, after a forfeit and in the middle of a round.                      *)
(***************************************************************************)
\* the coordinates make-move requests carry in SpecRounds: the cells that
\* complete the fives of the MidPositions and a cell next to a locked cell
RoundCells ==
  { <<8, 8>>, <<9, 6>>, <<4, 4>>, <<6, 9>>, <<5, 4>>, <<8, 4>> }

\* a room that s1 created and s2 joined, or a round in play
InitRounds ==
  /\ \/ \E lockedCells \in generateLockedCells :
           rooms = joinRoom(createRoom(NoRooms, "r1", "s1", lockedCells),
                            "r1", "s2")
     \/ \E p \in {q \in MidPositions : PlayablePosition(q)} :
           rooms = [id \in {"r1"} |-> positionState(p)]
  /\ pendingRoomTimeouts = NoTimers
  /\ connected = Sockets
  /\ pendingCreate = {}
  /\ pendingJoin = {}
  /\ last = Answer("join-room", "r1", NoPos, "room-joined")
  /\ waitingPlayers = <<>>
  /\ now = StartTime
  /\ pendingMatch = {}
  /\ pendingFind = {}
  /\ users = NewUsers
  /\ pendingElo = {}

NextRounds ==
  \/ \E s \in {"s1", "s2"}, r \in RoomIds, cell \in RoundCells :
        MakeMove(s, r, cell[1], cell[2])
  \/ \E s \in {"s1", "s2"}, r \in RoomIds : StartGame(s, r)
  \/ \E s \in {"s1", "s2"}, r \in RoomIds : TimeExpired(s, r)

SpecRounds == InitRounds /\ [][NextRounds]_vars

(***************************************************************************)
(* SpecGrace: the players of a room disconnect, come back and join again   *)
(*                                                                         *)
(* The room of s1 and s2, before its first round or in a round; sockets    *)
(* disconnect and connect again, any of them asks to join the room, the    *)
(* grace timer fires, and time passes.                                     *)
(***************************************************************************)
NextGrace ==
  \/ \E s \in Sockets : Disconnect(s)
  \/ \E s \in Sockets : Connect(s)
  \/ \E s \in Sockets, r \in RoomIds :
        JoinOffered(MaxPending) /\ JoinRoomCheck(s, r)
  \/ \E p \in pendingJoin : JoinRoomCommit(p)
  \/ \E r \in RoomIds : GraceTimeout(r)
  \/ \E t \in GraceTimes : Tick(t)

SpecGrace == InitRounds /\ [][NextGrace]_vars

\* SpecGrace with its timers: a grace timer that is pending fires
SpecGraceFair ==
  SpecGrace /\ \A r \in RoomIds : WF_vars(GraceTimeout(r))

(***************************************************************************)
(* SpecJoin: join-room requests handled at the same time                   *)
(*                                                                         *)
(* The handlers of Spec for the room of s1, with up to MaxJoining          *)
(* join-room requests between their look at the room and their call of     *)
(* joinRoom or addSpectator.                                               *)
(***************************************************************************)
NextJoin ==
  \/ \E r \in RoomIds : CreateOffered(MaxPending) /\ CreateRoomCheck("s1", r)
  \/ \E p \in pendingCreate : CreateRoomCommit(p)
  \/ \E s \in Guests, r \in RoomIds :
        JoinOffered(MaxJoining) /\ JoinRoomCheck(s, r)
  \/ \E p \in pendingJoin : JoinRoomCommit(p)
  \/ \E s \in Sockets, r \in RoomIds : StartGame(s, r)
  \/ \E s \in Sockets, r \in RoomIds : LeaveRoom(s, r)

SpecJoin == Init /\ [][NextJoin]_vars

(***************************************************************************)
(* SpecMatch: the matchmaking queue                                        *)
(*                                                                         *)
(* Sockets ask for a match, cancel, disconnect, and time passes; a match   *)
(* that is found gets its room. A socket that is of a match asks for no    *)
(* other one.                                                              *)
(***************************************************************************)
NextMatch ==
  \/ \E s \in Sockets, elo \in EloValues :
        ~inMatch(s) /\ FindMatch(s, elo)
  \/ \E s \in Sockets : PeriodicMatch(s)
  \/ \E p \in pendingMatch : MatchCreateRoom(p)
  \/ \E p \in pendingMatch : MatchJoinRoom(p)
  \/ \E s \in Sockets : CancelMatchmaking(s)
  \/ \E t \in Times : Tick(t)
  \/ \E s \in Sockets : Disconnect(s)

SpecMatch == Init /\ [][NextMatch]_vars

(***************************************************************************)
(* SpecWindow: the matchmaking queue with ratings close together and far   *)
(* apart                                                                   *)
(***************************************************************************)
NextWindow ==
  \/ \E s \in Sockets, elo \in WindowElos :
        ~inMatch(s) /\ FindMatch(s, elo)
  \/ \E s \in Sockets : PeriodicMatch(s)
  \/ \E p \in pendingMatch : MatchCreateRoom(p)
  \/ \E p \in pendingMatch : MatchJoinRoom(p)
  \/ \E s \in Sockets : CancelMatchmaking(s)
  \/ \E t \in WindowTimes : Tick(t)
  \/ \E s \in Sockets : Disconnect(s)

SpecWindow == Init /\ [][NextWindow]_vars

(***************************************************************************)
(* SpecQueue: find-match requests that await the user store while other    *)
(* events arrive; all of it happens within the second the server starts in *)
(***************************************************************************)
NextQueue ==
  \/ \E s \in Sockets : ~inMatch(s) /\ FindMatchRequest(s)
  \/ \E s \in Sockets : FindMatchRefused(s)
  \/ \E s \in Sockets, elo \in QueueElos : FindMatchEnqueue(s, elo)
  \/ \E s \in Sockets : PeriodicMatch(s)
  \/ \E p \in pendingMatch : MatchCreateRoom(p)
  \/ \E p \in pendingMatch : MatchJoinRoom(p)
  \/ \E s \in Sockets : CancelMatchmaking(s)
  \/ \E s \in Sockets : Disconnect(s)

SpecQueue == Init /\ [][NextQueue]_vars

(***************************************************************************)
(* SpecEdge: make-move with coordinates outside the board                  *)
(*                                                                         *)
(* The room of s1 and s2; the coordinates of the requests are on the       *)
(* board or, by one, outside of it on one of its four sides.               *)
(***************************************************************************)
\* cells outside the board: a row or a column of -1 or BOARD_SIZE
OutsideCells == { <<-1, 8>>, <<BOARD_SIZE, 8>>, <<8, -1>>, <<8, BOARD_SIZE>> }

EdgeCells == OutsideCells \cup { <<8, 8>>, <<9, 6>>, <<8, 4>> }

NextEdge ==
  \/ \E s \in {"s1", "s2"}, r \in RoomIds, cell \in EdgeCells :
        MakeMove(s, r, cell[1], cell[2])
  \/ \E s \in {"s1", "s2"}, r \in RoomIds : StartGame(s, r)

SpecEdge == InitRounds /\ [][NextEdge]_vars

(***************************************************************************)
(* SpecCreate: two sockets ask to create the same room                     *)
(*                                                                         *)
(* The create-room handlers of s1 and s2 may be at their awaits together;  *)
(* s3 joins the room, its owner starts the game.                           *)
(***************************************************************************)
\* create-room requests that may be awaiting the user store together
MaxCreating == 2

\* the sockets that ask to create a room
Creators == {"s1", "s2"}

NextCreate ==
  \/ \E s \in Creators, r \in RoomIds :
        CreateOffered(MaxCreating) /\ CreateRoomCheck(s, r)
  \/ \E p \in pendingCreate : CreateRoomCommit(p)
  \/ \E r \in RoomIds : JoinOffered(MaxPending) /\ JoinRoomCheck("s3", r)
  \/ \E p \in pendingJoin : JoinRoomCommit(p)
  \/ \E s \in Creators, r \in RoomIds : StartGame(s, r)

SpecCreate == Init /\ [][NextCreate]_vars

(***************************************************************************)
(* elo.js: expectedRating, newRating, getKFactor, updateEloForMatch.  The  *)
(* ratings are drawn so that the difference of two of them is a multiple   *)
(* of 400: 10^((rB - rA) / 400) is then a power of ten with a whole        *)
(* exponent, and the expected score is a fraction of whole numbers.        *)
(***************************************************************************)
RATING_SCALE == 400
K_PROVISIONAL == 40
K_ESTABLISHED == 32
PROVISIONAL_GAMES == 30

\* the ratings and games counts of the users before any match; an elo of 0
\* is one that userA.elo || 1200 replaces
UserElos == {0, 1200, 1600}
UserGames == {10, 30}
\* the sockets whose ratings and games counts are drawn, the participants
\* of the matches
RatedSockets == {"s1", "s2"}
\* the calls of updateEloForMatch that may be awaiting the store together
MaxUpdates == 2
\* the largest exponent of ten the ratings of a match may give
MaxExponent == 1

RECURSIVE pow10(_)
pow10(m) == IF m = 0 THEN 1 ELSE 10 * pow10(m - 1)

\* the ratings for which the expected score is computed here
onScale(rA, rB) ==
  /\ (rB - rA) % RATING_SCALE = 0
  /\ (rB - rA) \div RATING_SCALE \in (0 - MaxExponent)..MaxExponent

\* 1 / (1 + Math.pow(10, (rB - rA) / 400)), as <<numerator, denominator>>
expectedRating(rA, rB) ==
  LET m == (rB - rA) \div RATING_SCALE
  IN  IF m >= 0
      THEN <<1, 1 + pow10(m)>>
      ELSE <<pow10(0 - m), pow10(0 - m) + 1>>

\* Math.round(x) for x = n / d with d > 0: the floor of x + 1/2
round(n, d) == (2 * n + d) \div (2 * d)

\* Math.round(rA + k * (scoreA - eA)); the score is given doubled (0, 1, 2
\* for 0, 0.5, 1)
newRating(rA, rB, score2A, k) ==
  LET eA == expectedRating(rA, rB)
  IN  round(2 * eA[2] * rA + k * (score2A * eA[2] - 2 * eA[1]), 2 * eA[2])

getKFactor(gamesPlayed) ==
  IF gamesPlayed < PROVISIONAL_GAMES THEN K_PROVISIONAL ELSE K_ESTABLISHED

\* userA.elo || 1200
beforeOf(user) == IF user.elo = 0 THEN DEFAULT_ELO ELSE user.elo

\* scoreA and scoreB doubled, or <<>> without a winner and a draw
scores(socketA, socketB, winnerSocketId, isDraw) ==
  IF isDraw THEN <<1, 1>>
  ELSE IF winnerSocketId = socketA THEN <<2, 0>>
  ELSE IF winnerSocketId = socketB THEN <<0, 2>>
  ELSE <<>>

\* afterA and afterB when both ratings are computed with the K-factor of
\* the first participant
ratingsAfterOneK(userA, userB, sc) ==
  <<newRating(beforeOf(userA), beforeOf(userB), sc[1],
              getKFactor(userA.gamesPlayed)),
    newRating(beforeOf(userB), beforeOf(userA), sc[2],
              getKFactor(userA.gamesPlayed))>>

\* afterA and afterB of updateEloForMatch
ratingsAfter(userA, userB, sc) ==
  <<newRating(beforeOf(userA), beforeOf(userB), sc[1],
              getKFactor(userA.gamesPlayed)),
    newRating(beforeOf(userB), beforeOf(userA), sc[2],
              getKFactor(userB.gamesPlayed))>>

\* updateEloForMatch up to its first await: both User documents are read
UpdateEloRead(socketA, socketB, winnerSocketId, isDraw) ==
  /\ socketA # socketB
  /\ Cardinality(pendingElo) < MaxUpdates
  /\ onScale(beforeOf(users[socketA]), beforeOf(users[socketB]))
  /\ users[socketA].gamesPlayed \in UserGames
  /\ users[socketB].gamesPlayed \in UserGames
  /\ pendingElo' = pendingElo \cup
        {[socketA |-> socketA, socketB |-> socketB,
          winnerSocketId |-> winnerSocketId, isDraw |-> isDraw,
          userA |-> users[socketA], userB |-> users[socketB]]}
  /\ last' = Answer("updateEloForMatch", Null, NoPos, "await")
  /\ UNCHANGED <<rooms, pendingRoomTimeouts, connected, pendingCreate,
                 pendingJoin, users>>
  /\ UNCHANGED matchVars

\* updateEloForMatch from the documents read: return null without a winner
\* and a draw, otherwise findByIdAndUpdate of both with the new elo and
\* $inc gamesPlayed
UpdateEloWrite(p) ==
  /\ p \in pendingElo
  /\ pendingElo' = pendingElo \ {p}
  /\ LET sc == scores(p.socketA, p.socketB, p.winnerSocketId, p.isDraw)
     IN  IF sc = <<>>
         THEN /\ UNCHANGED users
              /\ last' = Answer("updateEloForMatch", Null, NoPos, Null)
         ELSE LET after == ratingsAfter(p.userA, p.userB, sc)
              IN  /\ users' =
                        [users EXCEPT
                           ![p.socketA] =
                              [elo |-> after[1],
                               gamesPlayed |-> @.gamesPlayed + 1],
                           ![p.socketB] =
                              [elo |-> after[2],
                               gamesPlayed |-> @.gamesPlayed + 1]]
                  /\ last' = Answer("updateEloForMatch", Null, NoPos,
                                    "elo-updated")
  /\ UNCHANGED <<rooms, pendingRoomTimeouts, connected, pendingCreate,
                 pendingJoin>>
  /\ UNCHANGED matchVars

\* the users before any match
InitElo ==
  /\ rooms = NoRooms
  /\ pendingRoomTimeouts = NoTimers
  /\ connected = Sockets
  /\ pendingCreate = {}
  /\ pendingJoin = {}
  /\ last = Answer("listen", Null, NoPos, Null)
  /\ waitingPlayers = <<>>
  /\ now = StartTime
  /\ pendingMatch = {}
  /\ pendingFind = {}
  /\ users \in {u \in [Sockets -> [elo : UserElos \cup {DEFAULT_ELO},
                                    gamesPlayed : UserGames \cup {0}]] :
                  /\ \A s \in RatedSockets :
                        /\ u[s].elo \in UserElos
                        /\ u[s].gamesPlayed \in UserGames
                  /\ \A s \in Sockets \ RatedSockets : u[s] = NewUsers[s]}
  /\ pendingElo = {}

NextElo ==
  \/ \E a, b \in RatedSockets, w \in RatedSockets \cup {Null},
          d \in BOOLEAN :
        UpdateEloRead(a, b, w, d)
  \/ \E p \in pendingElo : UpdateEloWrite(p)

SpecElo == InitElo /\ [][NextElo]_vars

(***************************************************************************)
(* Properties of makeMove                                                  *)
(***************************************************************************)
\* every cell a make-move request names in one of the specifications
RequestCells == LobbyCells \cup GameCells \cup MidCells

lockedSet(gs) == SeqToSet(gs.lockedCells)

stonesOf(gs, symbol) == {cell \in DOMAIN gs.board : gs.board[cell] = symbol}

\* the symbol of the slot a socket holds in a room, Null for none
moverSymbol(gs, s) ==
  IF gs.player1.socketId = s THEN "X"
  ELSE IF gs.player2.socketId = s THEN "O" ELSE Null

\* the step is a make-move that was accepted
AcceptedStep == last'.op = "make-move" /\ last'.result \in MoveAccepted

\* the step starts a round of the room or makes the room anew
RoundStartStep(r) ==
  /\ last'.room = r
  /\ \/ last'.op = "start-game" /\ last'.result = "game-started"
     \/ last'.op = "create-room" /\ last'.result = "room-created"

C1_LockedEmpty ==
  \A r \in DOMAIN rooms : lockedSet(rooms[r]) \cap DOMAIN rooms[r].board = {}

C1_LockedRejected ==
  \A r \in DOMAIN rooms, s \in Sockets :
     (/\ rooms[r].status = "playing"
      /\ moverSymbol(rooms[r], s) = rooms[r].currentTurn)
     => \A cell \in lockedSet(rooms[r]) :
           makeMove(rooms, r, s, cell[1], cell[2]).result = ErrLockedCell

C1_AcceptedOnFree ==
  AcceptedStep =>
    LET r == last'.room
        cell == last'.cell
    IN  /\ r \in DOMAIN rooms /\ r \in DOMAIN rooms'
        /\ cell \notin DOMAIN rooms[r].board
        /\ cell \notin lockedSet(rooms[r])
        /\ DOMAIN rooms'[r].board = DOMAIN rooms[r].board \cup {cell}

C1_StonesStay ==
  \A r \in DOMAIN rooms \cap DOMAIN rooms' :
     ~RoundStartStep(r) =>
        \A cell \in DOMAIN rooms[r].board :
           /\ cell \in DOMAIN rooms'[r].board
           /\ rooms'[r].board[cell] = rooms[r].board[cell]

\* C1: an accepted makeMove places its stone on a cell that was empty and
\* is not a locked cell of the room; in every state of a round the locked
\* cells hold no stone, no stone is overwritten or removed, and the move of
\* the player on turn onto a locked cell is answered with the locked-cell
\* error.
C1_AcceptedMoveOnEmptyUnlockedCell ==
  /\ [](C1_LockedEmpty /\ C1_LockedRejected)
  /\ [][C1_AcceptedOnFree /\ C1_StonesStay]_vars

\* a move onto a locked cell was refused in a round that has stones
C1_Witness ==
  /\ last.result = ErrLockedCell
  /\ \E r \in DOMAIN rooms : rooms[r].moveCount >= 2

C2_OnlyOnTurn ==
  \A r \in DOMAIN rooms, s \in Sockets, cell \in RequestCells :
     rooms[r].status = "playing" =>
        LET gs == rooms[r]
            m == makeMove(rooms, r, s, cell[1], cell[2])
            symbol == moverSymbol(gs, s)
        IN  /\ m.result \in MoveAccepted => symbol = gs.currentTurn
            /\ (symbol \in {"X", "O"} /\ symbol # gs.currentTurn)
                 => m.result = ErrNotYourTurn

C2_TurnFlips ==
  AcceptedStep =>
    LET r == last'.room
        turn == rooms[r].currentTurn
    IN  /\ rooms'[r].board[last'.cell] = turn
        /\ last'.result = MoveContinue =>
              /\ rooms'[r].currentTurn \in {"X", "O"} \ {turn}
              /\ rooms'[r].status = "playing"

\* the opener of the round leads by one stone or by none, and the turn is
\* with the symbol that does not lead
C2_Alternation ==
  \A r \in DOMAIN rooms :
     LET gs == rooms[r]
         lead == Cardinality(stonesOf(gs, gs.lastStarter))
                   - Cardinality(stonesOf(gs, other(gs.lastStarter)))
     IN  /\ gs.lastStarter = Null => DOMAIN gs.board = {}
         /\ gs.lastStarter # Null =>
               /\ lead \in {0, 1}
               /\ gs.status = "playing" =>
                     gs.currentTurn = IF lead = 0 THEN gs.lastStarter
                                      ELSE other(gs.lastStarter)

\* C2: in a playing room makeMove is accepted only from the player whose
\* symbol is currentTurn, the other player gets NotYourTurn, and an accepted
\* move that neither wins nor draws hands the turn to the other symbol; so
\* the symbols alternate within a round and the numbers of X and of O differ
\* by at most one.
C2_TurnsAlternate ==
  /\ [](C2_OnlyOnTurn /\ C2_Alternation)
  /\ [][C2_TurnFlips]_vars

\* O opened the round, both have moved, and the player off turn was refused
C2_Witness ==
  /\ last.result = ErrNotYourTurn
  /\ \E r \in DOMAIN rooms :
        /\ rooms[r].lastStarter = "O"
        /\ rooms[r].moveCount >= 3

\* the cells are a line of stones of symbol through cell that no stone of
\* symbol continues at either end
C3_IsRun(board, cells, cell, symbol) ==
  /\ Len(cells) >= WIN_LENGTH
  /\ \E i \in 1..Len(cells) : cells[i] = cell
  /\ \A i \in 1..Len(cells) :
        cells[i] \in DOMAIN board /\ board[cells[i]] = symbol
  /\ \E d \in { <<0, 1>>, <<1, 0>>, <<1, 1>>, <<1, -1>> } :
        /\ \A i \in 1..(Len(cells) - 1) :
              cells[i + 1] = <<cells[i][1] + d[1], cells[i][2] + d[2]>>
        /\ at(board, cells[1][1] - d[1], cells[1][2] - d[2]) # symbol
        /\ at(board, cells[Len(cells)][1] + d[1],
                     cells[Len(cells)][2] + d[2]) # symbol

\* C3: an accepted makeMove reports a win exactly when, with the stone
\* placed, five or more stones of the mover's symbol lie in a row through
\* the placed cell; the room is then finished, its winner is the mover's
\* symbol, and winningCells is that run: five cells or more, the placed cell
\* among them, all holding the mover's symbol.
C3_WinIffFiveThroughPlacedCell ==
  [][AcceptedStep =>
       LET r == last'.room
           cell == last'.cell
           symbol == rooms[r].currentTurn
           after == rooms'[r]
       IN  /\ (last'.result = MoveWin)
                 <=> fiveThrough(after.board, cell, symbol)
           /\ last'.result = MoveWin =>
                 /\ after.status = "finished"
                 /\ after.winner = symbol
                 /\ C3_IsRun(after.board, after.winningCells, cell, symbol)
           /\ last'.result # MoveWin => after.winningCells = <<>>]_vars

\* a win by a run longer than five, the placed cell inside it
C3_Witness ==
  /\ last.result = MoveWin
  /\ \E r \in DOMAIN rooms :
        /\ rooms[r].status = "finished"
        /\ Len(rooms[r].winningCells) > WIN_LENGTH
        /\ last.cell # rooms[r].winningCells[1]

C4_CountsStones ==
  \A r \in DOMAIN rooms :
     /\ rooms[r].moveCount = Cardinality(DOMAIN rooms[r].board)
     /\ DOMAIN rooms[r].board \cap lockedSet(rooms[r]) = {}

C4_CountsPlacements ==
  \A r \in DOMAIN rooms \cap DOMAIN rooms' :
     rooms'[r].moveCount =
        IF AcceptedStep /\ last'.room = r THEN rooms[r].moveCount + 1
        ELSE IF RoundStartStep(r) THEN 0
        ELSE rooms[r].moveCount

\* C4: moveCount is the number of placements accepted since the round
\* started, and it is the number of cells of the board that hold a stone,
\* none of them a locked cell.
C4_MoveCountIsStoneCount ==
  /\ []C4_CountsStones
  /\ [][C4_CountsPlacements]_vars

\* the second round of a room, three stones placed in it
C4_Witness ==
  \E r \in DOMAIN rooms :
     /\ rooms[r].lastStarter = "O"
     /\ rooms[r].moveCount = 3
     /\ last.result = MoveContinue

\* C5: in every round, whichever symbol opens it, the first stone is
\* accepted exactly when its cell is in validFirstMoveCells; on another cell
\* that is not locked it is answered with FirstMoveRestricted and the board
\* stays empty.
C5_FirstStoneNextToLockedCell ==
  \A r \in DOMAIN rooms, s \in Sockets, cell \in RequestCells :
     LET gs == rooms[r]
         m == makeMove(rooms, r, s, cell[1], cell[2])
     IN  (/\ gs.status = "playing"
          /\ DOMAIN gs.board = {}
          /\ moverSymbol(gs, s) = gs.currentTurn)
         => /\ (m.result \in MoveAccepted) <=> (cell \in gs.validFirstMoveCells)
            /\ (cell \notin gs.validFirstMoveCells /\ cell \notin lockedSet(gs))
                 => (m.result = ErrFirstMove /\ m.rooms = rooms)

playableCells(gs) == Cells \ (DOMAIN gs.board \cup lockedSet(gs))

\* C7: an accepted move that leaves no cell to play on and makes no five in
\* a row finishes the room with winner "draw" and is answered with Draw; no
\* room is playing with no cell left to play on.
C7_DrawWhenNoPlayableCell ==
  /\ [][AcceptedStep =>
          LET after == rooms'[last'.room]
          IN  (playableCells(after) = {} /\ last'.result # MoveWin)
              => /\ last'.result = MoveDraw
                 /\ after.status = "finished"
                 /\ after.winner = "draw"]_vars
  /\ [](\A r \in DOMAIN rooms :
          rooms[r].status = "playing" => playableCells(rooms[r]) # {})

C8_RejectionKeepsRooms ==
  \A r \in RoomIds, s \in Sockets, cell \in RequestCells :
     LET m == makeMove(rooms, r, s, cell[1], cell[2])
     IN  m.result \in MoveErrors => m.rooms = rooms

\* C8: a makeMove that ends in a validation failure, whichever it is, leaves
\* the room as it was: board, moveCount, currentTurn, status, winner,
\* winningCells and the fields of the opening rule.
C8_RejectedMoveChangesNothing ==
  /\ []C8_RejectionKeepsRooms
  /\ [][(last'.op = "make-move" /\ last'.result \in MoveErrors)
          => rooms' = rooms]_vars

\* the opener's second stone was refused in a round with two stones
C8_Witness ==
  /\ last.op = "make-move"
  /\ last.result = ErrOpen4
  /\ \E r \in DOMAIN rooms :
        /\ rooms[r].moveCount = 2
        /\ rooms[r].firstStarterPos # NoPos

C9_NotPlayingRejected ==
  \A r \in RoomIds, s \in Sockets, cell \in RequestCells :
     (r \notin DOMAIN rooms \/ rooms[r].status \in {"waiting", "finished"})
     => LET m == makeMove(rooms, r, s, cell[1], cell[2])
        IN  m.result = ErrInvalidState /\ m.rooms = rooms

C9_StonesOnlyWhilePlaying ==
  \A r \in DOMAIN rooms \cap DOMAIN rooms' :
     DOMAIN rooms'[r].board \ DOMAIN rooms[r].board # {}
     => rooms[r].status = "playing"

\* C9: makeMove on a room that does not exist, or whose status is waiting
\* or finished, is answered with InvalidState; no stone is placed in a room
\* that is not playing.
C9_NoMoveOutsidePlaying ==
  /\ []C9_NotPlayingRejected
  /\ [][C9_StonesOnlyWhilePlaying]_vars

\* a move was refused in a finished room that holds a stone
C9_Witness ==
  /\ last.op = "make-move"
  /\ last.result = ErrInvalidState
  /\ \E r \in DOMAIN rooms :
        rooms[r].status = "finished" /\ rooms[r].moveCount > 0

\* C10: the status of a room changes only from waiting to playing, from
\* playing to finished and from finished to playing; it never goes from
\* waiting to finished, and a room that left waiting never returns to it.
C10_StatusCycle ==
  [][\A r \in DOMAIN rooms \cap DOMAIN rooms' :
        ~(last'.op = "create-room" /\ last'.room = r)
        => <<rooms[r].status, rooms'[r].status>> \in
              { <<"waiting", "waiting">>, <<"playing", "playing">>,
                <<"finished", "finished">>, <<"waiting", "playing">>,
                <<"playing", "finished">>, <<"finished", "playing">> }]_vars

(***************************************************************************)
(* Properties of forfeit, start-game, resetRoom and joinRoom               *)
(***************************************************************************)
\* what forfeit has to make of a room for a loser: finished, no winning
\* cells, the winner by the slots, every other field as it was
C11_Forfeited(before, after, loser) ==
  /\ after.status = "finished"
  /\ after.winningCells = <<>>
  /\ after = [before EXCEPT !.status = after.status,
                            !.winner = after.winner,
                            !.winningCells = after.winningCells]
  /\ IF before.player2 = NoPlayer
     THEN after.winner = Null
     ELSE /\ (before.player1.socketId = loser
              /\ before.player2.socketId # loser) => after.winner = "O"
          /\ (before.player2.socketId = loser
              /\ before.player1.socketId # loser) => after.winner = "X"
          /\ after.winner \in {"X", "O"}

C11_ForfeitResult ==
  \A r \in DOMAIN rooms, s \in Sockets :
     LET after == forfeit(rooms, r, s)
     IN  /\ DOMAIN after = DOMAIN rooms
         /\ C11_Forfeited(rooms[r], after[r], s)

\* C11: forfeit on a room with both player slots occupied sets status
\* finished, clears winningCells and makes the winner the symbol of the slot
\* the loser does not occupy; with slot 2 empty it finishes the room with
\* winner null; in both cases the room stays in the room map.
C11_ForfeitFinishesForTheOtherSlot ==
  /\ []C11_ForfeitResult
  /\ [][last'.op = "time-expired" =>
          /\ last'.room \in DOMAIN rooms'
          /\ DOMAIN rooms' = DOMAIN rooms
          /\ rooms'[last'.room].status = "finished"
          /\ rooms'[last'.room].winningCells = <<>>]_vars

\* a round with stones was forfeited by the player of slot 1: O wins
C11_Witness ==
  /\ last.op = "time-expired"
  /\ \E r \in DOMAIN rooms :
        /\ rooms[r].status = "finished"
        /\ rooms[r].winner = "O"
        /\ rooms[r].moveCount > 0

C12_StartGuards ==
  \A r \in RoomIds, s \in Sockets, lockedCells \in generateLockedCells :
     LET started == startGame(rooms, r, s, lockedCells)
         mayStart == /\ r \in DOMAIN rooms
                     /\ rooms[r].player1.socketId = s
                     /\ rooms[r].player2 # NoPlayer
     IN  /\ (started.result = "game-started") <=> mayStart
         /\ ~mayStart => (started.result = "start-error"
                         /\ started.rooms = rooms)

\* C12: a start-game request takes effect only when the requester holds
\* slot 1 and slot 2 is occupied; from anyone else, with slot 2 empty or for
\* a missing room it is answered with an error and the rooms, so the board,
\* locked cells, status, turn and lastStarter of the room, stay as they were.
C12_StartOnlyByOwnerWithOpponent ==
  /\ []C12_StartGuards
  /\ [][last'.op = "start-game" =>
          IF last'.result = "start-error" THEN rooms' = rooms
          ELSE /\ last'.room \in DOMAIN rooms
               /\ rooms[last'.room].player2 # NoPlayer
               /\ rooms[last'.room].player1.socketId \in connected]_vars

\* a start-game was refused in a room in play that holds a stone
C12_Witness ==
  /\ last.op = "start-game"
  /\ last.result = "start-error"
  /\ \E r \in DOMAIN rooms :
        /\ rooms[r].status = "playing"
        /\ rooms[r].moveCount > 0

\* the cells of the board next to a locked cell, the locked cells left out
C13_AroundLocked(locked) ==
  LET square(l) == {<<l[1] + dr, l[2] + dc>> : dr \in -1..1, dc \in -1..1}
  IN  {cell \in UNION {square(l) : l \in locked} :
         /\ cell \notin locked
         /\ cell[1] \in 0..(BOARD_SIZE - 1)
         /\ cell[2] \in 0..(BOARD_SIZE - 1)}

\* a room as a reset leaves it, given the room before the reset
C13_FreshRound(before, after) ==
  /\ DOMAIN after.board = {}
  /\ after.moveCount = 0
  /\ after.firstStarterSymbol = Null
  /\ after.firstStarterPos = NoPos
  /\ after.winner = Null
  /\ after.winningCells = <<>>
  /\ after.status = "playing"
  /\ after.validFirstMoveCells = C13_AroundLocked(lockedSet(after))
  /\ after.player1 = before.player1
  /\ after.player2 = before.player2
  /\ after.spectators = before.spectators

C13_ResetResult ==
  \A r \in DOMAIN rooms, lockedCells \in generateLockedCells :
     LET after == resetRoom(rooms, r, lockedCells)[r]
     IN  /\ after.lockedCells = lockedCells
         /\ C13_FreshRound(rooms[r], after)

\* C13: after every successful start-game the room has an empty board,
\* moveCount 0, firstStarterSymbol and firstStarterPos cleared, winner null,
\* no winning cells, status playing, and validFirstMoveCells is the set of
\* the cells of the board next to one of the new locked cells, the locked
\* cells left out; the two player slots and the spectators are unchanged.
C13_ResetGivesFreshRound ==
  /\ []C13_ResetResult
  /\ [][(last'.op = "start-game" /\ last'.result = "game-started") =>
          /\ last'.room \in DOMAIN rooms /\ last'.room \in DOMAIN rooms'
          /\ C13_FreshRound(rooms[last'.room], rooms'[last'.room])]_vars

\* a second round was started in a room that has a spectator
C13_Witness ==
  /\ last.op = "start-game"
  /\ last.result = "game-started"
  /\ \E r \in DOMAIN rooms :
        /\ rooms[r].lastStarter = "O"
        /\ rooms[r].spectators # <<>>

C14_NextOpener ==
  \A r \in DOMAIN rooms, lockedCells \in generateLockedCells :
     LET after == resetRoom(rooms, r, lockedCells)[r]
         opener == IF rooms[r].lastStarter = Null THEN "X"
                   ELSE IF rooms[r].lastStarter = "X" THEN "O" ELSE "X"
     IN  after.currentTurn = opener /\ after.lastStarter = opener

C14_OpenerSteps ==
  \A r \in DOMAIN rooms \cap DOMAIN rooms' :
     LET before == rooms[r]
         after == rooms'[r]
     IN  IF last'.op = "start-game" /\ last'.result = "game-started"
            /\ last'.room = r
         THEN /\ after.currentTurn = after.lastStarter
              /\ before.lastStarter = Null => after.lastStarter = "X"
              /\ before.lastStarter # Null =>
                    after.lastStarter \in {"X", "O"} \ {before.lastStarter}
         ELSE /\ after.lastStarter = before.lastStarter
              /\ (AcceptedStep /\ DOMAIN before.board = {})
                    => after.board[last'.cell] = before.lastStarter

\* C14: the symbol that opens a round alternates from round to round: the
\* first round started in a room is opened by X, and every later start-game
\* sets currentTurn and lastStarter to the opposite of the opener of the
\* round before, however that round ended (win, forfeit, or reset while in
\* play); the first stone of a round is of the symbol lastStarter.
C14_OpenerAlternates ==
  /\ []C14_NextOpener
  /\ [][C14_OpenerSteps]_vars

\* a round opened by O is in play after a start-game, its first stone placed
C14_Witness ==
  \E r \in DOMAIN rooms :
     /\ rooms[r].lastStarter = "O"
     /\ rooms[r].firstStarterSymbol = "O"
     /\ rooms[r].moveCount = 1
     /\ last.result = MoveContinue

C15_JoinResult ==
  \A r \in RoomIds, s \in Sockets :
     LET joined == joinRoom(rooms, r, s)
     IN  IF r \notin DOMAIN rooms \/ rooms[r].status # "waiting"
         THEN joined = rooms
         ELSE /\ DOMAIN joined = DOMAIN rooms
              /\ joined[r].player2.socketId = s
              /\ joined[r].player2.symbol = "O"
              /\ joined[r].player2.symbol # joined[r].player1.symbol
              /\ joined[r].status = "waiting"
              /\ joined[r] = [rooms[r] EXCEPT !.player2 = joined[r].player2]

\* C15: joinRoom changes nothing when the room does not exist or its status
\* is not waiting; otherwise it fills slot 2 with symbol O, the opposite of
\* slot 1's X, leaves slot 1, the board and the locked cells as they were,
\* and leaves the status at waiting until a start-game.
C15_JoinFillsSlotTwoOnlyWhileWaiting ==
  /\ []C15_JoinResult
  /\ [][(last'.op = "join-room" /\ last'.result = "room-joined") =>
          \A r \in DOMAIN rooms :
             /\ r \in DOMAIN rooms'
             /\ rooms'[r].status = rooms[r].status
             /\ rooms'[r].player1 = rooms[r].player1
             /\ rooms'[r].board = rooms[r].board
             /\ rooms'[r].lockedCells = rooms[r].lockedCells
             /\ rooms'[r].player2 # rooms[r].player2 =>
                   /\ rooms[r].status = "waiting"
                   /\ rooms'[r].player2.symbol = "O"]_vars

\* a join-room ended with slot 2 filled and the room still waiting
C15_Witness ==
  /\ last.op = "join-room"
  /\ last.result = "room-joined"
  /\ \E r \in DOMAIN rooms :
        /\ rooms[r].status = "waiting"
        /\ rooms[r].player2 # NoPlayer
        /\ rooms[r].spectators = <<>>

\* C16: once slot 2 of a room holds a participant, the identities in the
\* two player slots stay as they are until the room is removed, whatever
\* join-room requests arrive, also when two of them for the same waiting
\* room are handled at the same time.
C16_OccupiedSlotsKeepTheirPlayers ==
  [][\A r \in DOMAIN rooms \cap DOMAIN rooms' :
        (/\ rooms[r].player2 # NoPlayer
         /\ ~(last'.op = "create-room" /\ last'.room = r))
        => /\ rooms'[r].player2.id = rooms[r].player2.id
           /\ rooms'[r].player1.id = rooms[r].player1.id]_vars

\* C17: in every state a room whose status is playing or finished has both
\* player slots occupied; slot 2 is empty only while the room is waiting.
C17_BothSlotsOnceStarted ==
  \A r \in DOMAIN rooms :
     rooms[r].status \in {"playing", "finished"} =>
        /\ rooms[r].player1.id # Null
        /\ rooms[r].player2 # NoPlayer

(***************************************************************************)
(* Properties of generateLockedCells                                       *)
(***************************************************************************)
\* C18: after createRoom and after every reset, lockedCells holds exactly 3
\* distinct cells of the board, and the Manhattan distance of every pair of
\* them lies between minDistance and maxGap; so also when the search has
\* used up its attempts and the fallback cells are returned.
C18_LockedCellsInBand ==
  \A r \in DOMAIN rooms :
     LET locked == rooms[r].lockedCells
     IN  /\ Len(locked) = 3
         /\ \A i \in 1..3 :
               /\ locked[i][1] \in 0..(BOARD_SIZE - 1)
               /\ locked[i][2] \in 0..(BOARD_SIZE - 1)
         /\ \A i, j \in 1..3 :
               i # j =>
                  LET d == Abs(locked[i][1] - locked[j][1])
                             + Abs(locked[i][2] - locked[j][2])
                  IN  /\ locked[i] # locked[j]
                      /\ d >= minDistance
                      /\ d <= maxGap


(***************************************************************************)
(* Properties of findMatch                                                 *)
(***************************************************************************)
\* the window of the reference for a wait of w whole seconds
C19_tol(w) ==
  CASE w <= 10 -> 50
    [] w > 10 /\ w <= 20 -> 100
    [] w > 20 /\ w <= 30 -> 200
    [] w > 30 /\ w <= 45 -> 300
    [] w > 45 /\ w <= 60 -> 400
    [] w > 60 -> 600

\* the whole seconds the entry has waited
C19_wait(entry) == (now - entry.enqueuedAt) \div 1000

C19_rating(entry) == IF entry.elo = NoElo THEN 1200 ELSE entry.elo

C19_diff(a, b) ==
  IF C19_rating(a) >= C19_rating(b)
  THEN C19_rating(a) - C19_rating(b) ELSE C19_rating(b) - C19_rating(a)

\* the places in the queue of the candidates of the entry at place p
C19_candidates(queue, p) ==
  {q \in 1..Len(queue) :
     /\ queue[q].id # queue[p].id
     /\ \/ C19_diff(queue[p], queue[q]) <= C19_tol(C19_wait(queue[p]))
        \/ C19_diff(queue[p], queue[q]) <= C19_tol(C19_wait(queue[q]))}

\* the opponent of the reference for the entry at place p
C19_reference(queue, p) ==
  LET candidates == C19_candidates(queue, p)
  IN  IF candidates = {} THEN Null
      ELSE LET q == CHOOSE c \in candidates :
                       \A d \in candidates :
                          \/ C19_diff(queue[p], queue[c])
                               < C19_diff(queue[p], queue[d])
                          \/ /\ C19_diff(queue[p], queue[c])
                                  = C19_diff(queue[p], queue[d])
                             /\ c <= d
           IN  queue[q].id

\* findMatch for the entry at place p returns the opponent of the reference
C19_agrees(queue, p) ==
  findMatch(queue, queue[p].id, now).opponent = C19_reference(queue, p)

C20_accepts(a, b) ==
  findMatch(<<a, b>>, a.id, now).opponent = b.id

\* C20: for any two participants A and B of the queue at the same instant, A
\* accepts B as a candidate if and only if B accepts A, whichever of them
\* stands first in the queue.
C20_EligibilityIsSymmetric ==
  \A i, j \in 1..Len(waitingPlayers) :
     i # j =>
        LET a == waitingPlayers[i]
            b == waitingPlayers[j]
        IN  /\ C20_accepts(a, b) <=> C20_accepts(b, a)
            /\ C20_accepts(a, b)
                 <=> findMatch(<<b, a>>, a.id, now).opponent = b.id

\* B has just come and A has waited long: the ratings differ by more than
\* B's own window, and A and B accept each other
C20_Witness ==
  \E i, j \in 1..Len(waitingPlayers) :
     LET a == waitingPlayers[i]
         b == waitingPlayers[j]
     IN  /\ i # j
         /\ Abs(eloOf(a) - eloOf(b)) > getDeltaForWait(waitSec(b, now))
         /\ Abs(eloOf(a) - eloOf(b)) <= getDeltaForWait(waitSec(a, now))
         /\ C20_accepts(a, b)
         /\ C20_accepts(b, a)


\* what findMatch(socketId) does to a queue: a call that finds an opponent
\* takes the requester and the opponent out and leaves the other entries as
\* they were and in their order; a call that returns null leaves the queue
\* as it was
C21_Frame(queue, socketId) ==
  LET match == findMatch(queue, socketId, now)
      left(i) == /\ queue[i].id # socketId
                 /\ queue[i].id # match.opponent
      rest == {i \in 1..Len(queue) : left(i)}
  IN  IF match.opponent = Null
      THEN match.waitingPlayers = queue
      ELSE /\ socketId \in queuedIds(queue)
           /\ match.opponent \in queuedIds(queue) \ {socketId}
           /\ Len(match.waitingPlayers) = Cardinality(rest)
           /\ Len(match.waitingPlayers) = Len(queue) - 2
           /\ \A i \in rest :
                 \E k \in 1..Len(match.waitingPlayers) :
                    /\ match.waitingPlayers[k] = queue[i]
                    /\ k = Cardinality({j \in rest : j <= i})

\* C21: a findMatch call that succeeds removes exactly the requester and the
\* chosen opponent from the queue and leaves every other entry untouched; a
\* call that returns null, because the requester is not queued or has no
\* candidate, leaves the queue unchanged, the requester still queued with
\* its enqueue time. It is so for every socket on every queue the server
\* reaches, and on the queue find-match has just put the socket into.
C21_FindMatchRemovesThePairOnly ==
  /\ \A s \in Sockets : C21_Frame(waitingPlayers, s)
  /\ \A s \in Sockets, elo \in EloValues :
        C21_Frame(addWaitingPlayer(waitingPlayers, s, elo, now), s)

\* three sockets are queued, findMatch pairs two of them and the third stays
C21_Witness ==
  /\ Len(waitingPlayers) = 3
  /\ \E s \in queuedIds(waitingPlayers) :
        LET match == findMatch(waitingPlayers, s, now)
        IN  /\ match.opponent # Null
            /\ Len(match.waitingPlayers) = 1
            /\ match.waitingPlayers[1].id \notin {s, match.opponent}


\* the place of the socket in the queue
C22_place(queue, s) == CHOOSE p \in 1..Len(queue) : queue[p].id = s

\* the entries at p and q differ by at most 50, and neither has a candidate
\* of a smaller difference
C22_ClosePair(queue, p, q) ==
  /\ p # q
  /\ C19_diff(queue[p], queue[q]) <= 50
  /\ \A c \in C19_candidates(queue, p) :
        C19_diff(queue[p], queue[c]) >= C19_diff(queue[p], queue[q])
  /\ \A c \in C19_candidates(queue, q) :
        C19_diff(queue[q], queue[c]) >= C19_diff(queue[q], queue[p])

\* as C22_ClosePair, and no other candidate of either is as close
C22_ClosestPair(queue, p, q) ==
  /\ C22_ClosePair(queue, p, q)
  /\ \A c \in C19_candidates(queue, p) \ {q} :
        C19_diff(queue[p], queue[c]) > C19_diff(queue[p], queue[q])
  /\ \A c \in C19_candidates(queue, q) \ {p} :
        C19_diff(queue[q], queue[c]) > C19_diff(queue[q], queue[p])

\* the step has made a match of the two sockets
C22_pairs(a, b) ==
  \E m \in pendingMatch' \ pendingMatch : {m.requester, m.opponent} = {a, b}

\* the claim as it stands: two queued participants whose ratings differ by at
\* most 50, neither with a queued candidate of a smaller difference, are
\* paired with each other within 10 seconds of the moment both are in the
\* queue: the find-match request that puts the second into the queue pairs
\* them, and no two such entries are left in the queue together
C22_ClosePairIsPaired ==
  /\ [](\A p, q \in 1..Len(waitingPlayers) :
          ~C22_ClosePair(waitingPlayers, p, q))
  /\ [][\A s \in Sockets, elo \in WindowElos :
          (last'.op = "find-match" /\ FindMatch(s, elo)) =>
             LET queue == addWaitingPlayer(waitingPlayers, s, elo, now)
                 p == C22_place(queue, s)
             IN  \A q \in 1..Len(queue) :
                    C22_ClosePair(queue, p, q) => C22_pairs(s, queue[q].id)]_vars

\* C22: two queued participants whose ratings differ by at most 50, neither
\* of whom has another queued candidate of a smaller or of the same
\* difference, are paired with each other at the moment both are in the
\* queue, and so within 10 seconds of it: the find-match request that puts
\* the second into the queue pairs them, and no two such entries are ever
\* left in the queue together.
C22_ClosestPairIsPairedAtOnce ==
  /\ [](\A p, q \in 1..Len(waitingPlayers) :
          ~C22_ClosestPair(waitingPlayers, p, q))
  /\ [][\A s \in Sockets, elo \in WindowElos :
          (last'.op = "find-match" /\ FindMatch(s, elo)) =>
             LET queue == addWaitingPlayer(waitingPlayers, s, elo, now)
                 p == C22_place(queue, s)
             IN  \A q \in 1..Len(queue) :
                    C22_ClosestPair(queue, p, q)
                       => C22_pairs(s, queue[q].id)]_vars

\* nobody has waited, so the windows are 50: find-match has just paired two
\* sockets and has left the third, which is further away, in the queue
C22_Witness ==
  /\ now = StartTime
  /\ last.op = "find-match"
  /\ last.result = "await"
  /\ \E m \in pendingMatch : m.stage = "create" /\ ~m.periodic
  /\ Len(waitingPlayers) = 1


\* C23: once a queued participant has waited more than 60 seconds the window
\* accepts anyone: the findMatch call of the next sweep pairs it with another
\* queued participant whatever their rating difference, so that no two
\* participants stay in the queue together.
C23_LongWaitAcceptsAnyone ==
  \A p \in 1..Len(waitingPlayers) :
     (/\ Len(waitingPlayers) >= 2
      /\ now - waitingPlayers[p].enqueuedAt > 60 * 1000)
        => findMatch(waitingPlayers, waitingPlayers[p].id, now).opponent # Null


\* the matches a socket is of: the rooms of findMatch, in the making or
\* made, that have it as requester, opponent or player
C24_matchesOf(s) ==
  {i \in 1..Len(MatchRoomIds) :
     \/ \E m \in pendingMatch :
           m.room = MatchRoomIds[i] /\ s \in {m.requester, m.opponent}
     \/ /\ MatchRoomIds[i] \in DOMAIN rooms
        /\ s \in {rooms[MatchRoomIds[i]].player1.socketId,
                  rooms[MatchRoomIds[i]].player2.socketId}}

\* C24: under any interleaving of periodic sweeps, one that still awaits the
\* user store included, and find-match requests, one queue entry is consumed
\* by at most one match: a socket that a match has taken is no longer in the
\* queue, no socket is of two matched pairs or two rooms, and a pair has two
\* different sockets.
C24_OneMatchPerEntry ==
  /\ \A s \in Sockets :
        /\ Cardinality(C24_matchesOf(s)) <= 1
        /\ s \in queuedIds(waitingPlayers) => C24_matchesOf(s) = {}
  /\ \A m \in pendingMatch : m.requester # m.opponent
  /\ \A m, n \in pendingMatch : m.room = n.room => m = n

\* a sweep has made a match and still awaits the user store, and the sweep's
\* findMatch for the socket left in the queue has found nobody
C24_Witness ==
  /\ \E m \in pendingMatch : m.periodic
  /\ Len(waitingPlayers) = 1
  /\ last.op = "periodic-matcher"
  /\ last.result = "continue"


\* C25: after a participant's connection has disconnected it is not in the
\* waiting queue, and no later findMatch returns it as the opponent; so also
\* when the disconnect arrives while the participant's find-match request
\* still awaits the user store.
C25_DisconnectedAreNotQueued ==
  /\ [](queuedIds(waitingPlayers) \subseteq connected)
  /\ [][\A m \in pendingMatch' \ pendingMatch :
          m.stage = "create" => m.opponent \in connected]_vars


(***************************************************************************)
(* Properties of disconnect, the grace timer and join-room                 *)
(***************************************************************************)
\* the player slots of a room whose socket has disconnected
C26_goneSlots(gs) ==
  {slot \in {"player1", "player2"} :
     gs[slot] # NoPlayer /\ gs[slot].socketId = Null}

\* C26: a player who has disconnected and joins the same room again before
\* the grace timer fires occupies the same slot again, with the same symbol
\* and the board unchanged, and the room is not removed: when the join-room
\* of the player of a slot without its socket, connected again, completes
\* while the grace timer of the room is pending, the slot has the socket
\* again.
C26_RejoinTakesTheSlotAgain ==
  [][\A p \in pendingJoin :
       (/\ JoinRoomCommit(p)
        /\ p.socket \in connected
        /\ p.room \in DOMAIN rooms
        /\ p.room \in DOMAIN pendingRoomTimeouts
        /\ \E slot \in C26_goneSlots(rooms[p.room]) :
              rooms[p.room][slot].id = p.socket)
          => /\ p.room \in DOMAIN rooms'
             /\ rooms'[p.room].board = rooms[p.room].board
             /\ \A slot \in C26_goneSlots(rooms[p.room]) :
                   rooms[p.room][slot].id = p.socket
                      => rooms'[p.room][slot]
                           = [rooms[p.room][slot] EXCEPT !.socketId = p.socket]]_vars


\* the players of the slots of a room that are without their socket
C27_gonePlayers(r) ==
  {rooms[r][slot].id : slot \in C26_goneSlots(rooms[r])}

\* C27: if a player disconnects and does not come back within the grace
\* period, the room is eventually removed from the room map, whatever else
\* happens meanwhile, a spectator joining the room included: a room with a
\* player gone leads to the room removed or the player connected again.
C27_RoomOfGonePlayerIsRemoved ==
  \A r \in RoomIds :
     (r \in DOMAIN rooms /\ C27_gonePlayers(r) # {})
        ~> (\/ r \notin DOMAIN rooms
            \/ C27_gonePlayers(r) \subseteq connected)


\* the socket holds a player slot of the game state
C28_holdsSlot(gs, s) ==
  gs.player1.socketId = s \/ gs.player2.socketId = s

\* C28: a disconnect of a player starts the grace timer of the room only if
\* none is pending, so that the disconnect of the second player leaves the
\* pending timer as the first set it (the deadline is not extended); a
\* disconnect of a spectator starts no timer and changes nothing of the room
\* but the spectators, of which that socket is removed.
C28_OneTimerPerRoom ==
  [][\A s \in Sockets :
       (s \in connected /\ Disconnect(s))
          => \A r \in DOMAIN rooms :
                /\ r \in DOMAIN pendingRoomTimeouts
                      => /\ r \in DOMAIN pendingRoomTimeouts'
                         /\ pendingRoomTimeouts'[r] = pendingRoomTimeouts[r]
                /\ (r \notin DOMAIN pendingRoomTimeouts
                    /\ C28_holdsSlot(rooms[r], s))
                      => /\ r \in DOMAIN pendingRoomTimeouts'
                         /\ pendingRoomTimeouts'[r] = now
                /\ ~C28_holdsSlot(rooms[r], s)
                      => /\ r \in DOMAIN pendingRoomTimeouts'
                            <=> r \in DOMAIN pendingRoomTimeouts
                         /\ LET keep(x) == x # s
                            IN  rooms'[r] =
                                  [rooms[r] EXCEPT
                                     !.spectators = SelectSeq(@, keep)]]_vars

\* the second player of a room left after the first, and the timer of the
\* room is still the one the first disconnect set
C28_Witness ==
  \E r \in DOMAIN rooms :
     /\ rooms[r].player1.socketId = Null
     /\ rooms[r].player2.socketId = Null
     /\ rooms[r].player1.disconnectedAt # rooms[r].player2.disconnectedAt
     /\ r \in DOMAIN pendingRoomTimeouts
     /\ pendingRoomTimeouts[r] < now
     /\ pendingRoomTimeouts[r] \in {rooms[r].player1.disconnectedAt,
                                     rooms[r].player2.disconnectedAt}


(***************************************************************************)
(* Properties of the rating update                                         *)
(***************************************************************************)
\* the K-factor of a participant with that many games
C29_k(games) == IF games < 30 THEN 40 ELSE 32

\* the rating a participant rated r has after a match against one rated
\* opp, with the score doubled and the games count given
C29_rating(r, opp, score2, games) ==
  newRating(r, opp, score2, C29_k(games))

\* the rating the update reads of a user
C29_before(user) == IF user.elo = 0 THEN 1200 ELSE user.elo

\* C29: a rating update of a decided match writes for both participants the
\* rating computed from the pair of ratings read before the match, each with
\* the K-factor of the participant's own games count (40 below 30 games,
\* otherwise 32), and adds one to the games count of both; two participants
\* rated 1200 with 10 games each end at 1220 (the winner) and 1180; without
\* a winner and without the draw flag the ratings and the games counts stay.
C29_RatingUpdate ==
  [][\A p \in pendingElo :
       UpdateEloWrite(p)
          => LET a == p.socketA
                 b == p.socketB
                 rA == C29_before(p.userA)
                 rB == C29_before(p.userB)
                 decided == p.isDraw \/ p.winnerSocketId \in {a, b}
                 sA == IF p.isDraw THEN 1
                       ELSE IF p.winnerSocketId = a THEN 2 ELSE 0
             IN  /\ decided
                    => /\ users'[a].elo =
                             C29_rating(rA, rB, sA, p.userA.gamesPlayed)
                       /\ users'[b].elo =
                             C29_rating(rB, rA, 2 - sA, p.userB.gamesPlayed)
                       /\ users'[a].gamesPlayed = users[a].gamesPlayed + 1
                       /\ users'[b].gamesPlayed = users[b].gamesPlayed + 1
                       /\ \A s \in Sockets \ {a, b} : users'[s] = users[s]
                 /\ (/\ decided
                     /\ ~p.isDraw
                     /\ rA = 1200 /\ rB = 1200
                     /\ p.userA.gamesPlayed = 10 /\ p.userB.gamesPlayed = 10)
                    => LET w == p.winnerSocketId
                       IN  /\ users'[w].elo = 1220
                           /\ \A l \in {a, b} \ {w} : users'[l].elo = 1180
                 /\ ~decided => users' = users]_vars

\* a winner with 10 games and a loser with 30, rated 1200 and 1600 before,
\* after their match: 40 * (1 - 1/11) and 32 * (0 - 10/11) are added
C29_Witness ==
  /\ last.result = "elo-updated"
  /\ \E a, b \in Sockets :
        /\ users[a] = [elo |-> 1236, gamesPlayed |-> 11]
        /\ users[b] = [elo |-> 1571, gamesPlayed |-> 31]


(***************************************************************************)
(* Properties of the order of the events of a room                         *)
(***************************************************************************)
\* C30: the events of a room change its state in the order of their
\* arrival: a join-room that arrived (its handler is waiting for the user
\* store) before a make-move of the same room does not change the room
\* after the move was made.
C30_EventsApplyInArrivalOrder ==
  [][\A p \in pendingJoin :
       (/\ JoinRoomCommit(p)
        /\ last.op = "make-move"
        /\ last.room = p.room
        /\ last.result \in MoveAccepted)
          => rooms' = rooms]_vars


(***************************************************************************)
(* Properties of the removal of rooms                                      *)
(***************************************************************************)
\* a player slot of the room is without a socket
C31_slotEmpty(gs) ==
  \/ gs.player1.socketId = Null
  \/ gs.player2 = NoPlayer
  \/ gs.player2.socketId = Null

\* the grace timer of the room fires with a player slot without a socket
C31_timerRemoves(r) == GraceTimeout(r) /\ C31_slotEmpty(rooms[r])

\* C31, as claimed: a room leaves the room map only when the player of slot
\* 1 leaves it, when the player of slot 2 leaves it with slot 1 already
\* without its socket (both players have left), or when the grace timer
\* fires with a player slot without a socket.
C31_RemovedByOwnerBothOrTimer ==
  [][\A r \in DOMAIN rooms :
       r \notin DOMAIN rooms'
          => \/ \E s \in Sockets :
                   /\ LeaveRoom(s, r)
                   /\ rooms[r].player1.socketId = s
             \/ \E s \in Sockets :
                   /\ LeaveRoom(s, r)
                   /\ rooms[r].player2.socketId = s
                   /\ rooms[r].player1.socketId = Null
             \/ C31_timerRemoves(r)]_vars

\* C31, amended: a room leaves the room map only when one of its two
\* players leaves it, or when the grace timer fires with a player slot
\* without a socket; no other event removes a room.
C31_RemovedByPlayerOrTimer ==
  [][\A r \in DOMAIN rooms :
       r \notin DOMAIN rooms'
          => \/ \E s \in Sockets :
                   /\ LeaveRoom(s, r)
                   /\ s \in {rooms[r].player1.socketId,
                             rooms[r].player2.socketId}
             \/ C31_timerRemoves(r)]_vars

\* a room was removed by the leave-room of one of its players
C31_Witness ==
  /\ last.op = "leave-room"
  /\ last.result = "opponent-left"
  /\ last.room \notin DOMAIN rooms


(***************************************************************************)
(* Properties of addSpectator and removeSpectator                          *)
(***************************************************************************)
\* the game state without its spectators
C32_game(gs) == [f \in (DOMAIN gs) \ {"spectators"} |-> gs[f]]

\* C32: addSpectator with a participant a second time leaves the spectators
\* as the first call left them, the participant among them once; and neither
\* addSpectator nor removeSpectator changes a player slot, the board, the
\* status or anything of the room but its spectators, nor any other room.
C32_SpectatorsOnly ==
  \A r \in RoomIds, s \in Sockets :
     LET once == addSpectator(rooms, r, s)
         twice == addSpectator(once, r, s)
         without == removeSpectator(rooms, r, s)
     IN  /\ twice = once
         /\ DOMAIN once = DOMAIN rooms
         /\ DOMAIN without = DOMAIN rooms
         /\ r \in DOMAIN rooms
               => /\ Cardinality({i \in DOMAIN once[r].spectators :
                                    once[r].spectators[i] = s}) = 1
                  /\ C32_game(once[r]) = C32_game(rooms[r])
                  /\ C32_game(without[r]) = C32_game(rooms[r])
                  /\ \A i \in DOMAIN without[r].spectators :
                        without[r].spectators[i] # s
         /\ \A q \in DOMAIN rooms \ {r} :
               once[q] = rooms[q] /\ without[q] = rooms[q]

\* a spectator of a room asks to join it again: addSpectator is called with
\* a participant who is among the spectators
C32_Witness ==
  \E p \in pendingJoin :
     /\ p.as = "spectator"
     /\ p.room \in DOMAIN rooms
     /\ \E i \in DOMAIN rooms[p.room].spectators :
           rooms[p.room].spectators[i] = p.socket


(***************************************************************************)
(* Properties of a finished round                                          *)
(***************************************************************************)
\* C33: while a room stays finished (no start-game has come), its winner,
\* its winningCells and its board stay as the end of the round left them; a
\* time-expired that arrives after the end of the round changes none of
\* them.
C33_FinishedRoundIsKept ==
  [][\A r \in DOMAIN rooms :
       (/\ rooms[r].status = "finished"
        /\ r \in DOMAIN rooms'
        /\ rooms'[r].status = "finished")
          => /\ rooms'[r].winner = rooms[r].winner
             /\ rooms'[r].winningCells = rooms[r].winningCells
             /\ rooms'[r].board = rooms[r].board]_vars


(***************************************************************************)
(* Properties of the events of sockets that are no players                 *)
(***************************************************************************)
\* the socket holds no player slot of the room
C34_noPlayer(gs, s) ==
  s # gs.player1.socketId /\ s # gs.player2.socketId

\* C34: a make-move, a start-game or a time-expired of a socket that is
\* none of the two players of the room leaves the board, currentTurn, the
\* status and the winner of the room as they were.
C34_OnlyPlayersChangeTheGame ==
  [][\A r \in DOMAIN rooms, s \in Sockets :
       (/\ C34_noPlayer(rooms[r], s)
        /\ \/ TimeExpired(s, r)
           \/ StartGame(s, r)
           \/ \E cell \in RequestCells : MakeMove(s, r, cell[1], cell[2]))
          => /\ r \in DOMAIN rooms'
             /\ rooms'[r].board = rooms[r].board
             /\ rooms'[r].currentTurn = rooms[r].currentTurn
             /\ rooms'[r].status = rooms[r].status
             /\ rooms'[r].winner = rooms[r].winner]_vars


(***************************************************************************)
(* Properties of time-expired                                              *)
(***************************************************************************)
\* C35: a time-expired of a room in play, reported by either of its two
\* players, ends the round with the player whose turn it was as the loser:
\* the winner is the symbol that is not currentTurn.
C35_TurnHolderLoses ==
  [][\A r \in DOMAIN rooms, s \in Sockets :
       (/\ rooms[r].status = "playing"
        /\ s \in {rooms[r].player1.socketId, rooms[r].player2.socketId}
        /\ TimeExpired(s, r))
          => /\ rooms'[r].status = "finished"
             /\ rooms'[r].winner \in {"X", "O"} \ {rooms[r].currentTurn}]_vars


(***************************************************************************)
(* Properties of the rating updates of a round                             *)
(***************************************************************************)
\* the handler called updateEloForMatch with two sockets and an outcome
C36_decided(calls) ==
  \E c \in calls :
     /\ c.socketA # Null /\ c.socketB # Null
     /\ c.isDraw \/ c.winnerSocketId \in {c.socketA, c.socketB}

\* C36: a finished round has one rating update at most: when the handler
\* that ran last called updateEloForMatch with a decided outcome for a room
\* and left it finished, a time-expired or a make-move that follows for the
\* room, which is still finished, makes no such call again.
C36_OneRatingUpdatePerRound ==
  [][\A r \in DOMAIN rooms :
       (/\ rooms[r].status = "finished"
        /\ last.room = r
        /\ C36_decided(last.elo)
        /\ \E s \in Sockets :
              \/ TimeExpired(s, r)
              \/ \E cell \in RequestCells : MakeMove(s, r, cell[1], cell[2]))
          => ~C36_decided(last'.elo)]_vars


(***************************************************************************)
(* Properties of create-room                                               *)
(***************************************************************************)
\* the players, the board and the status of a room
C37_kept(gs) == <<gs.player1, gs.player2, gs.board, gs.status>>

\* C37: a create-room for an identifier that has a room is answered
\* room-exists, and no create-room handler, one that was waiting for the
\* user store beside another for the same identifier included, changes the
\* players, the board or the status of a room that exists.
C37_CreateNeverReplaces ==
  [][/\ \A s \in Sockets, r \in DOMAIN rooms :
          CreateRoomCheck(s, r)
             => last'.result = "room-exists" /\ rooms' = rooms
     /\ \A p \in pendingCreate :
          (CreateRoomCommit(p) /\ p.room \in DOMAIN rooms)
             => C37_kept(rooms'[p.room]) = C37_kept(rooms[p.room])]_vars


(***************************************************************************)
(* Properties of the room of a match                                       *)
(***************************************************************************)
\* C38: when the handler that found a match has set up its room (nothing of
\* the match is left to be done), the room has the requester in slot 1 and
\* the opponent in slot 2, also when one of the two disconnected while the
\* room was being set up.
C38_MatchGivesRoomOfBoth ==
  [][\A p \in pendingMatch :
       (/\ MatchCreateRoom(p) \/ MatchJoinRoom(p)
        /\ \A q \in pendingMatch' : q.room # p.room)
          => /\ p.room \in DOMAIN rooms'
             /\ rooms'[p.room].player1.id = p.requester
             /\ rooms'[p.room].player2.id = p.opponent]_vars


(***************************************************************************)
(* Properties of the participants of a room                                *)
(***************************************************************************)
\* C39: in every room the two player slots hold different participants, and
\* no participant is a player and a spectator of the room at once.
C39_SlotsAndSpectatorsDiffer ==
  \A r \in DOMAIN rooms :
     /\ rooms[r].player2 # NoPlayer
           => rooms[r].player1.id # rooms[r].player2.id
     /\ \A i \in DOMAIN rooms[r].spectators :
           rooms[r].spectators[i]
              \notin {rooms[r].player1.id, rooms[r].player2.id}


(***************************************************************************)
(* Properties of make-move with coordinates outside the board              *)
(***************************************************************************)
\* the error results of makeMove
C40_errors ==
  {ErrInvalidState, ErrNotInRoom, ErrNotYourTurn, ErrLockedCell,
   ErrCellOccupied, ErrFirstMove, ErrOpen4}

\* C40: a make-move whose row or column is outside the board is answered
\* with an error result of makeMove, not with an exception that leaves the
\* handler, and the rooms stay as they were: no stone is placed.
C40_OutsideIsAnError ==
  [][\A s \in Sockets, r \in RoomIds, cell \in OutsideCells :
       MakeMove(s, r, cell[1], cell[2])
          => /\ last'.result \in C40_errors
             /\ rooms' = rooms]_vars
====
